---- MODULE Spec2Model ----
(***************************************************************************)
(* News collectors of LiberalMediaPlatform: the text normalizer            *)
(* (_clean_text), the per-entry extraction of the NHK collector variants   *)
(* (v1 .. v4) and the feed dispatcher (BaseCollectorV2).                   *)
(*                                                                         *)
(* Text is a sequence of one-character strings.  NBSP stands for the one   *)
(* character U+00A0.                                                       *)
(***************************************************************************)
EXTENDS Integers, Sequences, FiniteSets, TLC

VARIABLES
    \* ---- _clean_text ------------------------------------------------
    cvariant,   \* which _clean_text runs: "v1" (= v2 = v3) or "v4"
    cinput,     \* the argument of the first call
    text,       \* the local variable `text`
    cpc,        \* position in _clean_text: "idle", "decode", "done"
    passes,     \* passes of the while loop made by the call
    loopStart,  \* value of `text` when the while loop was entered
    round,      \* 1: first call, 2: call on the first call's result
    out1,       \* result of the first call
    \* ---- BaseCollectorV2.execute_collectors_for_feeds ------------------
    feeds,      \* the argument `feeds`
    fidx,       \* index of the feed the for loop is at
    results,    \* the local list `results`
    all_items,  \* the local list `all_items`
    dpc,        \* "off", "loop", "save", "done"
    awaited,    \* feeds whose plugin was awaited, in order
    runner,     \* "execute_collectors_for_feeds", or "main" of nhk_collector_v4
    sessions,   \* the ClientSessions created: for each the feed whose call
                \* of get_news created it, 0 for the session main creates
    session_of, \* for each awaited feed the session its get_news fetches
                \* with (a position in `sessions`), 0 when it has none
    loads,      \* the script names whose module load_collector_module
                \* created and executed, in order
    sys_modules \* sys.modules: for each script name the load (a position in
                \* `loads`) whose module is registered under it, 0 for none

dvars == <<feeds, fidx, results, all_items, dpc, awaited, runner, sessions,
          session_of, loads, sys_modules>>

VARIABLES
    \* ---- one collector run over one feed ------------------------------
    variant,    \* the collector: "v1" collect, "v2" collect (one feed of
                \* its loop), "v3" _collect_from_feed, "v4" get_news
    feed_info,  \* the feed descriptor given to the collector
    index_ok,   \* whether fetching the feed index succeeds
    entries,    \* feed.entries: each a feed entry with its article page
    eidx,       \* index of the entry the for loop is at
    items,      \* the NewsItems collected so far
    v2_category_id,  \* v2: the loop variable category_id of collect
    v2_publish_date, \* v2: the local variable publish_date of collect
    session_given,   \* v3, v4: whether the caller passed a ClientSession
    passed_session,  \* the session the caller passed: "none", "open", "closed"
    own_session,     \* the session the run created: "none", "open", "closed"
    fpc         \* "off", "start", "loop", "save"; at the end "returned" (the
                \* items), "error" or "save_failed" (an error result),
                \* "raised" (an exception leaves the collector)

fvars == <<variant, feed_info, index_ok, entries, eidx, items, v2_category_id,
          v2_publish_date, session_given, passed_session, own_session, fpc>>

VARIABLES
    \* ---- _guess_category ----------------------------------------------
    gvariant,   \* which _guess_category runs: "v2" or "v3"
    glabel,     \* the argument `category`
    gresult,    \* the value returned
    gpc         \* "off", "call", "done"

gvars == <<gvariant, glabel, gresult, gpc>>

VARIABLES
    \* ---- BaseCollectorV2.load_active_feeds ----------------------------
    csv_exists,   \* self.csv_path.exists()
    csv_rows,     \* the rows of the CSV file
    active_feeds, \* the list returned
    lpc           \* "off", "call", "done"

lvars == <<csv_exists, csv_rows, active_feeds, lpc>>

VARIABLES
    \* ---- validate ----------------------------------------------------
    vvariant,        \* whose validate runs: "v2" or "v3"
    has_session,     \* self.session is set
    vitems,          \* the argument `items`
    vidx,            \* index of the item the for loop is at
    validated_items, \* the local list validated_items (positions in vitems)
    vpc              \* "off", "loop", "done"

svars == <<vvariant, has_session, vitems, vidx, validated_items, vpc>>

VARIABLES
    \* ---- _extract_structured_content ---------------------------------
    wvariant,        \* "v1" or "v2"
    children,        \* the child elements of the content section
    widx,            \* index of the child the for loop is at
    walk_sections,   \* result['sections']
    wpc              \* "off", "loop", "done"

wvars == <<wvariant, children, widx, walk_sections, wpc>>

cvars == <<cvariant, cinput, text, cpc, passes, loopStart, round, out1>>

-----------------------------------------------------------------------------
(* Bounds of the model.                                                    *)

\* number of chunks an input string is concatenated from
MaxChunks == 3
\* deepest nesting of backslash-u escapes in the nested input family
MaxNest == 11
\* number of feed descriptors given to the dispatcher
MaxFeeds == 3
\* number of entries of a feed with several entries
MaxEntries == 2

-----------------------------------------------------------------------------
(* Characters and input strings.                                           *)

BS == "\\"
NBSP == "NBSP"

\* str.isspace / the regex class \s on the characters of the model
IsSpace(c) == c \in {" ", "\n", "\t", "\r", NBSP}

ChunkSet ==
    { <<BS>>,
      <<"u", "0", "0", "5", "c">>,
      <<"u", "0", "0", "2", "0">>,
      <<"/">>,
      <<"n">>,
      <<" ">>,
      <<"&", "a", "m", "p", ";">>,
      <<"a", "m", "p", ";">>,
      <<"a">>,
      <<"&", "n", "b", "s", "p", ";">> }

RECURSIVE Flatten(_)
Flatten(cs) == IF cs = <<>> THEN <<>> ELSE Head(cs) \o Flatten(Tail(cs))

ChunkInputs ==
    { Flatten(cs) : cs \in UNION { [1..k -> ChunkSet] : k \in 0..MaxChunks } }

\* a backslash, k times u005c, then u0020: decoding one escape yields the
\* backslash that starts the next one
RECURSIVE Repeat(_, _)
Repeat(s, k) == IF k = 0 THEN <<>> ELSE s \o Repeat(s, k - 1)

Nest(k) == <<BS>> \o Repeat(<<"u", "0", "0", "5", "c">>, k)
                  \o <<"u", "0", "0", "2", "0">>

NestInputs == { Nest(k) : k \in 0..MaxNest }

-----------------------------------------------------------------------------
(* html.unescape, on the named character references the input strings can  *)
(* hold (amp, nbsp; with and without the semicolon).                       *)

SubSeqFrom(s, i) == SubSeq(s, i, Len(s))

MatchAt(s, i, pat) ==
    /\ i + Len(pat) - 1 <= Len(s)
    /\ \A k \in 1..Len(pat) : s[i + k - 1] = pat[k]

html5 ==
    [ n \in { <<"a", "m", "p", ";">>, <<"a", "m", "p">>,
              <<"n", "b", "s", "p", ";">>, <<"n", "b", "s", "p">> } |->
        IF n[1] = "a" THEN <<"&">> ELSE <<NBSP>> ]

\* [^\t\n\f <&#;]
IsNameChar(c) == c \notin {"\t", "\n", "\f", " ", "<", "&", "#", ";"}

\* end (exclusive) of the run [^\t\n\f <&#;]{1,32} that starts at i
RECURSIVE NameEnd(_, _, _)
NameEnd(s, i, n) ==
    IF i <= Len(s) /\ n < 32 /\ IsNameChar(s[i]) THEN NameEnd(s, i + 1, n + 1) ELSE i

\* longest proper prefix s[:x], len(s)-1 >= x >= 2, that is in html5 (0: none)
RECURSIVE PrefixRef(_, _)
PrefixRef(name, x) ==
    IF x < 2 THEN 0
    ELSE IF SubSeq(name, 1, x) \in DOMAIN html5 THEN x
    ELSE PrefixRef(name, x - 1)

replace_charref(name) ==
    IF name \in DOMAIN html5 THEN html5[name]
    ELSE LET x == PrefixRef(name, Len(name) - 1)
         IN  IF x > 0 THEN html5[SubSeq(name, 1, x)] \o SubSeqFrom(name, x + 1)
             ELSE <<"&">> \o name

RECURSIVE UnescapeFrom(_, _)
UnescapeFrom(s, i) ==
    IF i > Len(s) THEN <<>>
    ELSE IF s[i] = "&" /\ NameEnd(s, i + 1, 0) > i + 1
    THEN LET e == NameEnd(s, i + 1, 0)
             j == IF e <= Len(s) /\ s[e] = ";" THEN e + 1 ELSE e
         IN  replace_charref(SubSeq(s, i + 1, j - 1)) \o UnescapeFrom(s, j)
    ELSE <<s[i]>> \o UnescapeFrom(s, i + 1)

html_unescape(s) == UnescapeFrom(s, 1)

-----------------------------------------------------------------------------
(* The backslash-u decoding loop.                                          *)

HexDigits ==
    {"0", "1", "2", "3", "4", "5", "6", "7", "8", "9",
     "a", "b", "c", "d", "e", "f", "A", "B", "C", "D", "E", "F"}

HexVal(c) ==
    CASE c = "0" -> 0 [] c = "1" -> 1 [] c = "2" -> 2 [] c = "3" -> 3
      [] c = "4" -> 4 [] c = "5" -> 5 [] c = "6" -> 6 [] c = "7" -> 7
      [] c = "8" -> 8 [] c = "9" -> 9
      [] c \in {"a", "A"} -> 10 [] c \in {"b", "B"} -> 11
      [] c \in {"c", "C"} -> 12 [] c \in {"d", "D"} -> 13
      [] c \in {"e", "E"} -> 14 [] c \in {"f", "F"} -> 15

\* chr(): the code points the input strings can name; any other code point
\* is a character outside the alphabet of the model
Chr(code) ==
    CASE code = 92 -> BS
      [] code = 32 -> " "
      [] code = 47 -> "/"
      [] code = 38 -> "&"
      [] OTHER -> "?"

\* r'\\u([0-9a-fA-F]{4})' matches at i
EscapeAt(s, i) ==
    /\ i + 5 <= Len(s)
    /\ s[i] = BS
    /\ s[i + 1] = "u"
    /\ \A k \in 2..5 : s[i + k] \in HexDigits

EscapeCode(s, i) ==
    ((HexVal(s[i + 2]) * 16 + HexVal(s[i + 3])) * 16 + HexVal(s[i + 4])) * 16
        + HexVal(s[i + 5])

\* re.search(pattern, text)
re_search_unicode(s) == \E i \in 1..Len(s) : EscapeAt(s, i)

\* re.sub(pattern, lambda m: chr(int(m.group(1), 16)), text): one pass, left
\* to right, the replacement text is not scanned again
RECURSIVE SubUnicodeFrom(_, _)
SubUnicodeFrom(s, i) ==
    IF i > Len(s) THEN <<>>
    ELSE IF EscapeAt(s, i)
    THEN <<Chr(EscapeCode(s, i))>> \o SubUnicodeFrom(s, i + 6)
    ELSE <<s[i]>> \o SubUnicodeFrom(s, i + 1)

\* re.sub whose replacement function returns the match itself
re_sub_unicode_keep(s) == s

re_sub_unicode(s) == SubUnicodeFrom(s, 1)

-----------------------------------------------------------------------------
(* str.replace, whitespace collapsing and strip.                           *)

RECURSIVE ReplaceFrom(_, _, _, _)
ReplaceFrom(s, i, pat, rep) ==
    IF i > Len(s) THEN <<>>
    ELSE IF MatchAt(s, i, pat)
    THEN rep \o ReplaceFrom(s, i + Len(pat), pat, rep)
    ELSE <<s[i]>> \o ReplaceFrom(s, i + 1, pat, rep)

str_replace(s, pat, rep) == ReplaceFrom(s, 1, pat, rep)

\* the slash replacement written with the backslash of the pattern left out
fix_escapes_slash_only(s) ==
    LET t1 == str_replace(s, <<"/">>, <<"/", "/">>)
        t2 == str_replace(t1, <<BS, "n">>, <<"\n">>)
        t3 == str_replace(t2, <<BS, "t">>, <<"\t">>)
        t4 == str_replace(t3, <<BS, "r">>, <<"\r">>)
        t5 == str_replace(t4, <<BS, "\"">>, <<"\"">>)
        t6 == str_replace(t5, <<BS, "'">>, <<"'">>)
    IN  str_replace(t6, <<BS, BS>>, <<BS>>)

\* the seven text.replace calls, in the order of the code
fix_escapes(s) ==
    LET t1 == str_replace(s, <<BS, "/">>, <<"/", "/">>)
        t2 == str_replace(t1, <<BS, "n">>, <<"\n">>)
        t3 == str_replace(t2, <<BS, "t">>, <<"\t">>)
        t4 == str_replace(t3, <<BS, "r">>, <<"\r">>)
        t5 == str_replace(t4, <<BS, "\"">>, <<"\"">>)
        t6 == str_replace(t5, <<BS, "'">>, <<"'">>)
    IN  str_replace(t6, <<BS, BS>>, <<BS>>)

\* re.sub(r' +', ' ', text): only runs of the space character are collapsed
RECURSIVE CollapseSpacesFrom(_, _)
CollapseSpacesFrom(s, i) ==
    IF i > Len(s) THEN <<>>
    ELSE IF s[i] = " " /\ i > 1 /\ s[i - 1] = " " THEN CollapseSpacesFrom(s, i + 1)
    ELSE <<s[i]>> \o CollapseSpacesFrom(s, i + 1)

collapse_spaces_only(s) == CollapseSpacesFrom(s, 1)

\* re.sub(r'\s+', ' ', text)
RECURSIVE CollapseFrom(_, _)
CollapseFrom(s, i) ==
    IF i > Len(s) THEN <<>>
    ELSE IF IsSpace(s[i])
    THEN IF i > 1 /\ IsSpace(s[i - 1]) THEN CollapseFrom(s, i + 1)
         ELSE <<" ">> \o CollapseFrom(s, i + 1)
    ELSE <<s[i]>> \o CollapseFrom(s, i + 1)

collapse_ws(s) == CollapseFrom(s, 1)

RECURSIVE LStrip(_)
LStrip(s) == IF s # <<>> /\ IsSpace(Head(s)) THEN LStrip(Tail(s)) ELSE s

RECURSIVE RStrip(_)
RStrip(s) ==
    IF s # <<>> /\ IsSpace(s[Len(s)]) THEN RStrip(SubSeq(s, 1, Len(s) - 1)) ELSE s

str_strip(s) == RStrip(LStrip(s))

\* the whole of _clean_text as a function (v1, v2, v3)
RECURSIVE decode_loop(_)
decode_loop(s) == IF re_search_unicode(s) THEN decode_loop(re_sub_unicode(s)) ELSE s

clean_text_v1(s) ==
    IF s = <<>> THEN <<>>
    ELSE str_strip(collapse_ws(fix_escapes(decode_loop(html_unescape(s)))))

\* v4: unescape, collapse, strip
clean_text_v4(s) ==
    IF s = <<>> THEN <<>> ELSE str_strip(collapse_ws(html_unescape(s)))

-----------------------------------------------------------------------------
(* _clean_text as a process: the call, one step per pass of the loop, the  *)
(* rest of the function, and a second call on the result.                  *)

\* the argument of the call in progress
CleanArg == IF round = 1 THEN cinput ELSE out1

CleanInit ==
    /\ cvariant \in {"v1", "v4"}
    /\ cinput \in ChunkInputs \cup NestInputs
    /\ text = cinput
    /\ cpc = "idle"
    /\ passes = 0
    /\ loopStart = <<>>
    /\ round = 1
    /\ out1 = <<>>

\* `if not text: return ""`
CleanEmpty ==
    /\ cpc = "idle"
    /\ CleanArg = <<>>
    /\ text' = <<>>
    /\ cpc' = "done"
    /\ out1' = IF round = 1 THEN <<>> ELSE out1
    /\ UNCHANGED <<cvariant, cinput, passes, loopStart, round>>

\* html.unescape, up to the first test of the while condition (v1)
CleanBegin ==
    /\ cpc = "idle"
    /\ CleanArg # <<>>
    /\ cvariant = "v1"
    /\ text' = html_unescape(CleanArg)
    /\ loopStart' = text'
    /\ passes' = 0
    /\ cpc' = "decode"
    /\ UNCHANGED <<cvariant, cinput, round, out1>>

\* one pass of `while re.search(pattern, text): text = re.sub(...)`
DecodePass ==
    /\ cpc = "decode"
    /\ re_search_unicode(text)
    /\ text' = re_sub_unicode(text)
    /\ passes' = passes + 1
    /\ UNCHANGED <<cvariant, cinput, cpc, loopStart, round, out1>>

\* the loop is left; replacements, whitespace, strip, return
CleanFinish ==
    /\ cpc = "decode"
    /\ ~re_search_unicode(text)
    /\ text' = str_strip(collapse_ws(fix_escapes(text)))
    /\ cpc' = "done"
    /\ out1' = IF round = 1 THEN text' ELSE out1
    /\ UNCHANGED <<cvariant, cinput, passes, loopStart, round>>

\* v4: the whole function has no loop
CleanV4 ==
    /\ cpc = "idle"
    /\ CleanArg # <<>>
    /\ cvariant = "v4"
    /\ text' = str_strip(collapse_ws(html_unescape(CleanArg)))
    /\ cpc' = "done"
    /\ out1' = IF round = 1 THEN text' ELSE out1
    /\ UNCHANGED <<cvariant, cinput, passes, loopStart, round>>

\* the caller passes the result to _clean_text again
CleanAgain ==
    /\ cpc = "done"
    /\ round = 1
    /\ round' = 2
    /\ text' = out1
    /\ cpc' = "idle"
    /\ passes' = 0
    /\ loopStart' = <<>>
    /\ UNCHANGED <<cvariant, cinput, out1>>

\* no call of _clean_text is in progress
CleanIdle ==
    /\ cvariant = "v1"
    /\ cinput = <<>>
    /\ text = <<>>
    /\ cpc = "off"
    /\ passes = 0
    /\ loopStart = <<>>
    /\ round = 1
    /\ out1 = <<>>

-----------------------------------------------------------------------------
(* BaseCollectorV2: the dispatcher.                                        *)
(*                                                                         *)
(* A feed descriptor names a script (script_file_name) and carries, as     *)
(* `plugin`, what awaiting that script's get_news on this feed does:       *)
(* raise an exception, return an error dictionary, return a result with    *)
(* 0, 1 or 2 items, or never return.  nhk_collector_v4.get_news catches    *)
(* every exception itself and its fetches end with the time limit of the   *)
(* client session, nhk_collector_v2a.get_news always returns its two       *)
(* sample items; "other" is any further plugin.                            *)

Scripts ==
    {"", "no_module", "no_get_news", "nhk_collector_v4", "nhk_collector_v2a", "other"}

PluginOutcomes == {"raise", "error", "items0", "items1", "items2", "never"}

OutcomesOf(script) ==
    CASE script = "nhk_collector_v4" -> {"error", "items0", "items1", "items2"}
      [] script = "nhk_collector_v2a" -> {"items2"}
      [] script = "other" -> PluginOutcomes
      [] OTHER -> {"items0"}

FeedDescriptors ==
    { [script_file_name |-> s, plugin |-> o] : <<s, o>> \in
        { so \in Scripts \X PluginOutcomes : so[2] \in OutcomesOf(so[1]) } }

ErrorMarker == [tag |-> "error", items |-> <<>>, feed |-> 0]

\* the items of the result of feed k: each item is <<k, n>>
PluginItems(k, outcome) ==
    CASE outcome = "items1" -> << <<k, 1>> >>
      [] outcome = "items2" -> << <<k, 1>>, <<k, 2>> >>
      [] OTHER -> <<>>

\* what `await collector_func(feed_info)` returns when it returns
PluginReturn(k, outcome) ==
    IF outcome = "error" THEN ErrorMarker
    ELSE [tag |-> "result", items |-> PluginItems(k, outcome), feed |-> k]

\* load_collector_module: None when the script cannot be loaded
load_collector_module(script) ==
    IF script = "no_module" THEN "None" ELSE script

\* module_from_spec and exec_module: every call of load_collector_module
\* that finds the script creates a module object and executes it;
\* self.collector_modules, the dictionary __init__ creates for the modules
\* read, is never written or read
exec_module(ls, script) ==
    IF script = "" \/ load_collector_module(script) = "None" THEN ls
    ELSE Append(ls, script)

\* sys.modules[script_name] = module, with the module just created
register_module(sm, ls, script) ==
    IF script = "" \/ load_collector_module(script) = "None" THEN sm
    ELSE [sm EXCEPT ![script] = Len(ls) + 1]

\* get_collector_function: None when the module has no get_news
get_collector_function(module) ==
    IF module = "no_get_news" THEN "None" ELSE "get_news"

\* execute_collector with the except branch returning an empty result
execute_collector_swallow(k, feed) ==
    IF feed.plugin = "raise"
    THEN [tag |-> "result", items |-> <<>>, feed |-> k]
    ELSE PluginReturn(k, feed.plugin)

\* execute_collector: try: return await collector_func(feed_info)
\*                    except Exception: return {'error': str(e)}
execute_collector(k, feed) ==
    IF feed.plugin = "raise" THEN ErrorMarker ELSE PluginReturn(k, feed.plugin)

\* the feed reaches `await self.execute_collector(feed, collector_func)`
Dispatchable(feed) ==
    /\ feed.script_file_name # ""
    /\ load_collector_module(feed.script_file_name) # "None"
    /\ get_collector_function(load_collector_module(feed.script_file_name)) # "None"

Runners == {"execute_collectors_for_feeds", "main"}

\* the feeds main of nhk_collector_v4 runs its own get_news on
MainDescriptors == { d \in FeedDescriptors : d.script_file_name = "nhk_collector_v4" }

\* whether the call of get_news creates a ClientSession: v4 creates one
\* when it is given none, after the check of the descriptor (a call that
\* returns an error may have ended before); nhk_collector_v2a fetches
\* nothing, and the sessions of other plugins are not counted
session_created(feed, given) ==
    IF given \/ feed.script_file_name # "nhk_collector_v4" THEN {FALSE}
    ELSE IF feed.plugin = "error" THEN BOOLEAN
    ELSE {TRUE}

DispatchInit ==
    /\ runner \in Runners
    /\ feeds \in UNION { [1..n -> IF runner = "main" THEN MainDescriptors
                                                    ELSE FeedDescriptors] :
                         n \in 0..MaxFeeds }
    /\ fidx = 1
    /\ results = <<>>
    /\ all_items = <<>>
    /\ dpc = IF runner = "main" THEN "start" ELSE "loop"
    /\ awaited = <<>>
    /\ sessions = <<>>
    /\ session_of = <<>>
    /\ loads = <<>>
    /\ sys_modules = [s \in Scripts |-> 0]

\* main up to its loop: [] for no feeds, else the session shared by all
\* feeds is created
MainOpen ==
    /\ dpc = "start"
    /\ dpc' = IF feeds = <<>> THEN "done" ELSE "loop"
    /\ sessions' = IF feeds = <<>> THEN sessions ELSE Append(sessions, 0)
    /\ UNCHANGED <<feeds, fidx, results, all_items, awaited, runner, session_of,
                   loads, sys_modules>>

\* the iteration of a skipped feed, were it to append an error marker
\* before `continue`
DispatchSkipMarked ==
    /\ dpc = "loop"
    /\ fidx <= Len(feeds)
    /\ ~Dispatchable(feeds[fidx])
    /\ fidx' = fidx + 1
    /\ results' = Append(results, ErrorMarker)
    /\ loads' = exec_module(loads, feeds[fidx].script_file_name)
    /\ sys_modules' = register_module(sys_modules, loads, feeds[fidx].script_file_name)
    /\ UNCHANGED <<feeds, all_items, dpc, awaited, runner, sessions, session_of>>

\* one iteration of `for feed in feeds`, for a feed that is skipped with
\* `continue`: no script name, no module, or no get_news
DispatchSkip ==
    /\ dpc = "loop"
    /\ fidx <= Len(feeds)
    /\ ~Dispatchable(feeds[fidx])
    /\ fidx' = fidx + 1
    /\ loads' = exec_module(loads, feeds[fidx].script_file_name)
    /\ sys_modules' = register_module(sys_modules, loads, feeds[fidx].script_file_name)
    /\ UNCHANGED <<feeds, results, all_items, dpc, awaited, runner, sessions,
                   session_of>>

\* one iteration of `for feed in feeds` that runs the plugin, for a plugin
\* that returns or raises
DispatchFeed ==
    /\ dpc = "loop"
    /\ fidx <= Len(feeds)
    /\ Dispatchable(feeds[fidx])
    /\ feeds[fidx].plugin # "never"
    /\ LET result == execute_collector(fidx, feeds[fidx])
       IN  /\ results' = Append(results, result)
           /\ all_items' = IF runner # "main" /\ result.tag = "result"
                              /\ result.items # <<>>
                           THEN all_items \o result.items
                           ELSE all_items
    /\ \E created \in session_created(feeds[fidx], runner = "main") :
          /\ sessions' = IF created THEN Append(sessions, fidx) ELSE sessions
          /\ session_of' = Append(session_of,
                                  IF runner = "main" THEN 1
                                  ELSE IF created THEN Len(sessions) + 1
                                  ELSE 0)
    /\ awaited' = Append(awaited, fidx)
    /\ fidx' = fidx + 1
    /\ loads' = IF runner = "main" THEN loads
                ELSE exec_module(loads, feeds[fidx].script_file_name)
    /\ sys_modules' = IF runner = "main" THEN sys_modules
                      ELSE register_module(sys_modules, loads,
                                           feeds[fidx].script_file_name)
    /\ UNCHANGED <<feeds, dpc, runner>>

\* `result = await self.execute_collector(feed, collector_func)` for a
\* plugin that never returns: the coroutine of the dispatcher stays at the
\* await, and no statement after it runs
DispatchHang ==
    /\ dpc = "loop"
    /\ fidx <= Len(feeds)
    /\ Dispatchable(feeds[fidx])
    /\ feeds[fidx].plugin = "never"
    /\ awaited' = Append(awaited, fidx)
    /\ session_of' = Append(session_of, 0)
    /\ dpc' = "await"
    /\ loads' = exec_module(loads, feeds[fidx].script_file_name)
    /\ sys_modules' = register_module(sys_modules, loads, feeds[fidx].script_file_name)
    /\ UNCHANGED <<feeds, fidx, results, all_items, runner, sessions>>

\* the loop is over
DispatchLoopEnd ==
    /\ dpc = "loop"
    /\ fidx > Len(feeds)
    /\ dpc' = "save"
    /\ UNCHANGED <<feeds, fidx, results, all_items, awaited, runner, sessions,
                   session_of, loads, sys_modules>>

\* `if all_items:` the integrated CSV is written; when writing raises, the
\* error is logged and no summary entry is appended
DispatchSave ==
    /\ dpc = "save"
    /\ \E csv_ok \in BOOLEAN :
          results' = IF all_items # <<>> /\ csv_ok
                     THEN Append(results,
                                 [tag |-> "integrated", items |-> <<>>,
                                  feed |-> Len(all_items)])
                     ELSE results
    /\ dpc' = "done"
    /\ UNCHANGED <<feeds, fidx, all_items, awaited, runner, sessions, session_of,
                   loads, sys_modules>>

\* the dispatcher is not running
DispatchIdle ==
    /\ feeds = <<>>
    /\ fidx = 1
    /\ results = <<>>
    /\ all_items = <<>>
    /\ dpc = "off"
    /\ awaited = <<>>
    /\ runner = "execute_collectors_for_feeds"
    /\ sessions = <<>>
    /\ session_of = <<>>
    /\ loads = <<>>
    /\ sys_modules = [s \in Scripts |-> 0]

-----------------------------------------------------------------------------
(* Feed entries, article pages and the records built from them.            *)
(*                                                                         *)
(* A page is described by what the selectors and regular expressions of    *)
(* the collectors find in it.  Images, videos and the thumbnail are left   *)
(* out.  Category labels are written in Latin letters: "seiji" is the      *)
(* label 政治, "tenki" a label that is in no mapping.                      *)

\* a value that may be None, NaN, '' or an integer
IntV(n) == <<"int", n>>
NoneV == <<"none", 0>>
NaNV == <<"nan", 0>>
EmptyStrV == <<"str", 0>>
AbsentV == <<"absent", 0>>

UrlNames == <<"url1", "url2", "url3", "url4">>

\* entry.link of the k-th entry of the feed
UrlOf(k) == <<UrlNames[k]>>

Piece(tag, txt) == [tag |-> tag, txt |-> txt]

\* f'{text}': nothing is appended for an empty text
TextPiece(tag, txt) == IF txt = <<>> THEN <<>> ELSE <<Piece(tag, txt)>>

\* a section of structured_content['sections']; `by` is the strategy whose
\* code appended it
Section(has_heading, heading, is_list, content, by) ==
    [has_heading |-> has_heading, heading |-> heading,
     is_list |-> is_list, content |-> content, by |-> by]

EntryRecords ==
    [has_link : BOOLEAN,
     has_title : BOOLEAN,
     title : {<<>>, <<"T">>},
     published : {"absent", "empty", "rfc822", "iso", "bad"},
     category : {"absent", "seiji", "tenki"}]

\* feedparser gives an entry either a title or no title attribute
Entries == { e \in EntryRecords : ~e.has_title => e.title = <<>> }

BaseEntry ==
    [has_link |-> TRUE, has_title |-> TRUE, title |-> <<"T">>,
     published |-> "rfc822", category |-> "absent"]

ScriptRecords ==
    [present : BOOLEAN,
     title : BOOLEAN,
     summary : BOOLEAN,
     more : BOOLEAN,
     body : 0..1,
     json_body : {"none", "valid", "invalid"},
     datetime : {"none", "good", "bad"},
     category : {"none", "seiji", "tenki"}]

NoScript ==
    [present |-> FALSE, title |-> FALSE, summary |-> FALSE, more |-> FALSE,
     body |-> 0, json_body |-> "none", datetime |-> "none",
     category |-> "none"]

\* what '#main' holds: no article at all ("none"), the target section, the
\* combined patterns (.content--summary, [class*="content--body"], the XPath
\* paragraphs), the alternative paragraphs, a .body-text, a
\* .content--detail-body, a .news_text, or only generic headings, paragraphs
\* and lists
MainKinds ==
    {"none", "target", "summary", "body", "paras", "alt_paras", "body_text",
     "detail", "news", "generic"}

\* the generic content of the article element: a heading, paragraphs, lists
GenericRecords == [heading : BOOLEAN, paras : 0..2, lists : 0..2]

\* an article with no heading, paragraph or list; the generic content is
\* read only when main = "generic", other pages carry NoGeneric
NoGeneric == [heading |-> FALSE, paras |-> 0, lists |-> 0]

PageRecords ==
    [fetch : {"ok", "non200", "raise"},
     script : ScriptRecords,
     article_nhk : BOOLEAN,
     detail_body : {"none", "plain", "sections"},
     news_text : {"none", "plain", "paras"},
     main : MainKinds,
     generic : GenericRecords,
     page_title : BOOLEAN,
     content_section : {"none", "plain", "p", "h_p"},
     header_category : {"none", "seiji", "tenki"}]

EmptyPage ==
    [fetch |-> "ok", script |-> NoScript, article_nhk |-> FALSE,
     detail_body |-> "none", news_text |-> "none", main |-> "none",
     generic |-> NoGeneric, page_title |-> FALSE,
     content_section |-> "none", header_category |-> "none"]

\* the scripts a variant can tell apart: v1 reads title, summary, more, body
\* and datetime; v2 reads title, summary, body (a string), publishedAt (the
\* datetime field here) and category; v3 reads the JSON body; v4 reads more.
\* The script of any page may hold a title
ScriptsOf(v) ==
    {NoScript} \cup
    { sc \in ScriptRecords :
        /\ sc.present
        /\ v # "v2" => sc.category = "none"
        /\ v = "v1" => sc.json_body = "none"
        /\ v = "v2" => sc.json_body = "none" /\ ~sc.more
        /\ v = "v3" => ~sc.summary /\ ~sc.more /\ sc.datetime = "none"
        /\ v = "v4" => ~sc.summary /\ sc.json_body = "none" /\ sc.datetime = "none"
        /\ v = "v3" /\ sc.json_body # "valid" => sc.body = 0
        /\ v = "v4" => sc.body = 0 }

\* a page whose fetch raises has no content
RaisingPage == [EmptyPage EXCEPT !.fetch = "raise"]

\* the pages a variant can tell apart: v1 looks into '#main', v2 at the
\* content section ('div.content--detail-main', 'main article' or
\* '.body-text') and the category of the header, v3 and v4 at the body
\* containers of the whole page
PagesOf(v) ==
    {RaisingPage} \cup
    CASE v = "v2" ->
            { [EmptyPage EXCEPT !.script = sc,
                               !.content_section = c, !.header_category = h] :
                sc \in ScriptsOf(v), c \in {"none", "p"}, h \in {"none", "tenki"} }
            \cup
            { [EmptyPage EXCEPT !.fetch = f,
                               !.content_section = c, !.header_category = h] :
                f \in {"ok", "non200"}, c \in {"none", "plain", "p", "h_p"},
                h \in {"none", "seiji", "tenki"} }
      [] v = "v1" ->
            { [EmptyPage EXCEPT !.fetch = f, !.script = sc, !.main = m] :
                f \in {"ok", "non200"}, sc \in ScriptsOf(v),
                m \in MainKinds }
            \cup
            { [EmptyPage EXCEPT !.fetch = f, !.script = sc, !.main = "generic",
                               !.generic = g] :
                f \in {"ok", "non200"}, sc \in ScriptsOf(v),
                g \in GenericRecords }
      [] v = "v3" ->
            { [EmptyPage EXCEPT !.fetch = f, !.script = sc, !.article_nhk = a,
                               !.detail_body = d, !.news_text = n, !.main = m,
                               !.page_title = t] :
                f \in {"ok", "non200"}, sc \in ScriptsOf(v), a \in BOOLEAN,
                d \in {"none", "plain", "sections"},
                n \in {"none", "plain", "paras"},
                m \in {"none", "target", "paras"}, t \in BOOLEAN }
      [] v = "v4" ->
            { [EmptyPage EXCEPT !.fetch = f, !.script = sc, !.detail_body = d,
                               !.news_text = n] :
                f \in {"ok", "non200"}, sc \in ScriptsOf(v),
                d \in {"none", "plain", "sections"},
                n \in {"none", "plain", "paras"} }

\* texts found in a page
ScriptTitle == <<"S">>
SummaryText == <<"s", "&", "a", "m", "p", ";", "s">>
MoreText == <<"m">>
BodyTitle == <<"b", "t">>
BodyText == <<"b">>
PageTitle == <<"H">>
ParaText == <<" ", "p">>
HeadText == <<"h">>
ElemText == <<"h", " ", "p">>

-----------------------------------------------------------------------------
(* Dates and categories.                                                   *)

\* email.utils.parsedate_to_datetime succeeds on an RFC 822 date only
parsedate_ok(published) == published = "rfc822"

\* NhkCollectorV3._parse_date: None for '', the parsed date for RFC 822 and
\* the strptime formats, the current time otherwise
parse_date_v3(published) ==
    IF published \in {"absent", "empty"} THEN "None"
    ELSE IF parsedate_ok(published) THEN "entry"
    ELSE IF published = "iso" THEN "entry"
    ELSE "now"

\* the date of v1 and v4 from the feed entry: hasattr(entry, 'published'),
\* parsedate_to_datetime, ValueError and TypeError caught
entry_date(e) ==
    IF e.published # "absent" /\ parsedate_ok(e.published) THEN "entry" ELSE "None"

\* NHKCollector._guess_category (v1)
category_mapping_v1 ==
    [l \in {"seiji", "keizai", "shakai", "kokusai", "supotsu", "kagaku_bunka", "kokkai"} |->
        CASE l = "seiji" -> 1 [] l = "keizai" -> 2 [] l = "shakai" -> 3
          [] l = "kokusai" -> 4 [] l = "supotsu" -> 5 [] l = "kagaku_bunka" -> 6
          [] l = "kokkai" -> 1]

guess_category_v1(label) ==
    IF label \in DOMAIN category_mapping_v1 THEN category_mapping_v1[label] ELSE 3

\* the canonical category IDs: the values of the category mapping
CategoryIds == 1..8

-----------------------------------------------------------------------------
(* Records and extraction results.                                         *)

\* NewsItem(...): the record stores the values it is given.  `entry` is the
\* position of the feed entry it was built from, html_by the strategy that
\* built content, structured the structured content of the extraction
NewsItem(k, media_id, title, url, content, publish_date, category_id, ex) ==
    [entry |-> k, media_id |-> media_id, title |-> title, url |-> url,
     content |-> content, publish_date |-> publish_date,
     category_id |-> category_id, html_by |-> ex.html_by,
     structured |-> ex.structured, sections |-> ex.sections]

\* what processing one entry does to the loop: appends an item, goes on to
\* the next entry, or leaves the loop with an exception
Appended(item) == [kind |-> "item", item |-> <<item>>]
Skipped == [kind |-> "skip", item |-> <<>>]
Escaped == [kind |-> "escape", item |-> <<>>]

\* content_html = "" and no structured content yet.  html_by names the
\* strategy that built the content: "embedded" (the __DetailProp__ script),
\* "primary" (the primary body container), "chain" (a later selector),
\* "generic" (headings, paragraphs and lists), "minimal" (the stub)
NoContent == [html |-> <<>>, html_by |-> "none", structured |-> "dict", sections |-> <<>>]

\* '<article class="nhk-article">' + f'<h1>{title}</h1>' + '<div class="nhk-article-content">'
Header(title) == <<Piece("article", <<>>), Piece("h1", title), Piece("div", <<>>)>>

\* '</div></article>'
Footer == <<Piece("/div", <<>>), Piece("/article", <<>>)>>

-----------------------------------------------------------------------------
(* nhk_collector_v4.get_news: one entry.                                   *)

\* method 1: the .content--detail-body element
v4_detail_body(p, title, c) ==
    IF p.detail_body = "none" THEN c
    ELSE [c EXCEPT
            !.html = Header(title)
                     \o (IF p.detail_body = "sections"
                         THEN TextPiece("h2", clean_text_v4(HeadText))
                              \o TextPiece("text_br", clean_text_v4(ParaText))
                         ELSE TextPiece("text", clean_text_v4(ElemText)))
                     \o Footer,
            !.html_by = "primary"]

\* method 2: the more field of the __DetailProp__ script
v4_script(p, title, c) ==
    IF c.html # <<>> THEN c
    ELSE IF p.script.present /\ p.script.more
    THEN [c EXCEPT
            !.html = Header(title)
                     \o TextPiece("text_br", str_strip(clean_text_v4(MoreText)))
                     \o Footer,
            !.html_by = "embedded"]
    ELSE c

\* method 3: the .news_text element
v4_news_text(p, title, c) ==
    IF c.html # <<>> THEN c
    ELSE IF p.news_text # "none"
    THEN [c EXCEPT
            !.html = Header(title)
                     \o (IF p.news_text = "paras"
                         THEN TextPiece("h2", clean_text_v4(HeadText))
                              \o TextPiece("text_br", clean_text_v4(ParaText))
                         ELSE TextPiece("text", clean_text_v4(ElemText)))
                     \o Footer,
            !.html_by = "chain"]
    ELSE c

\* no method gave content: the article with the title and an empty div
v4_fallback(p, title, c) ==
    IF c.html # <<>> THEN c
    ELSE [c EXCEPT !.html = Header(title) \o Footer, !.html_by = "minimal"]

extract_v4(p, title) ==
    v4_fallback(p, title,
        v4_news_text(p, title,
            v4_script(p, title,
                v4_detail_body(p, title, NoContent))))

\* publish_date of v4: the entry's date or datetime.now()
publish_date_v4(e) == IF entry_date(e) # "None" THEN entry_date(e) ELSE "now"

\* news_category = feed_info.get('news_category', 0); 0 if pd.isna(news_category)
news_category_v4(fi) ==
    IF fi.news_category \in {AbsentV, NoneV, NaNV} THEN IntV(0) ELSE fi.news_category

\* the body of the for loop of get_news.  entry.link is read first, then the
\* page is fetched, then entry.title is read; the handler of the try logs
\* entry.link, so an entry without link raises again inside the handler
process_entry_v4(fi, k, e, p) ==
    IF ~e.has_link THEN Escaped
    ELSE IF p.fetch = "raise" THEN Skipped
    ELSE IF ~e.has_title THEN Skipped
    ELSE LET title == clean_text_v4(e.title) IN
         Appended(NewsItem(k, fi.media_id, title, UrlOf(k),
                           extract_v4(p, title).html, publish_date_v4(e),
                           news_category_v4(fi), extract_v4(p, title)))

-----------------------------------------------------------------------------
(* NHKCollector.collect (v1): one entry.                                   *)

\* the title the script's title pattern finds: re.search takes the first
\* 'title:' of the script, which is a body segment's title when the script
\* has no title of its own
v1_title(p, title) ==
    IF p.script.present /\ p.script.title THEN clean_text_v1(ScriptTitle)
    ELSE IF p.script.present /\ p.script.body = 1 THEN clean_text_v1(BodyTitle)
    ELSE title

\* the summary section, appended as soon as the summary pattern matches
v1_script_summary(p, c) ==
    IF p.script.present /\ p.script.summary
    THEN [c EXCEPT !.sections =
            Append(@, Section(TRUE, <<"summary">>, FALSE,
                              <<clean_text_v1(SummaryText)>>, "embedded"))]
    ELSE c

\* the more field, with the segments of the body field
v1_script_more(p, title, c) ==
    IF p.script.present /\ p.script.more
    THEN [c EXCEPT
            !.html = <<Piece("article", <<>>), Piece("h1", title),
                       Piece("div_text", clean_text_v1(MoreText))>>
                     \o (IF p.script.body = 1
                         THEN <<Piece("h2", clean_text_v1(BodyTitle)),
                                Piece("p", clean_text_v1(BodyText))>>
                         ELSE <<>>)
                     \o <<Piece("/article", <<>>)>>,
            !.html_by = "embedded",
            !.sections =
                IF p.script.body = 1
                THEN Append(@, Section(TRUE, clean_text_v1(BodyTitle), FALSE,
                                       <<clean_text_v1(BodyText)>>, "embedded"))
                ELSE @]
    ELSE c

\* a raw element in the content div; its paragraphs become sections
v1_raw(name, title, c, by) ==
    [c EXCEPT
        !.html = <<Piece("article", <<>>), Piece("h1", title),
                   Piece("div_raw", <<name>>), Piece("/article", <<>>)>>,
        !.html_by = by,
        !.sections = Append(@, Section(FALSE, <<>>, FALSE,
                                       <<clean_text_v1(ParaText)>>, by))]

\* 'heading' in sections[-1] and isinstance(sections[-1]['content'], list)
LastIsHeadedList(secs) ==
    secs # <<>> /\ secs[Len(secs)].has_heading /\ secs[Len(secs)].is_list

\* the .content--summary element of the combined patterns
v1_summary_element(title, c) ==
    [c EXCEPT
        !.html = Header(title)
                 \o <<Piece("div_summary", clean_text_v1(ElemText))>> \o Footer,
        !.html_by = "chain",
        !.sections =
            IF LastIsHeadedList(@)
            THEN [@ EXCEPT ![Len(@)] =
                    [@ EXCEPT !.is_list = FALSE,
                              !.content = <<clean_text_v1(ElemText)>>]]
            ELSE Append(@, Section(TRUE, <<"summary">>, FALSE,
                                   <<clean_text_v1(ElemText)>>, "chain"))]

\* a [class*="content--body"] element with one heading and one paragraph
v1_body_element(title, c) ==
    [c EXCEPT
        !.html = Header(title)
                 \o <<Piece("h2", clean_text_v1(HeadText)),
                      Piece("p", clean_text_v1(ParaText))>> \o Footer,
        !.html_by = "chain",
        !.sections = Append(@, Section(TRUE, clean_text_v1(HeadText), TRUE,
                                       <<clean_text_v1(ParaText)>>, "chain"))]

\* one paragraph found by the XPath selectors
v1_paragraph(title, c) ==
    [c EXCEPT
        !.html = Header(title) \o <<Piece("p", clean_text_v1(ParaText))>> \o Footer,
        !.html_by = "chain",
        !.sections = Append(@, Section(FALSE, <<>>, FALSE,
                                       <<clean_text_v1(ParaText)>>, "chain"))]

\* the paragraphs of the generic extraction: each goes into the last section,
\* appended to a list content and replacing any other content
RECURSIVE v1_generic_paras(_, _)
v1_generic_paras(secs, n) ==
    IF n = 0 THEN secs
    ELSE LET prev == v1_generic_paras(secs, n - 1) IN
         IF prev # <<>>
         THEN [prev EXCEPT ![Len(prev)] =
                IF @.is_list
                THEN [@ EXCEPT !.content = Append(@, clean_text_v1(ParaText))]
                ELSE [@ EXCEPT !.content = <<clean_text_v1(ParaText)>>]]
         ELSE <<Section(FALSE, <<>>, FALSE, <<clean_text_v1(ParaText)>>, "generic")>>

\* the texts of the li elements of the first and of the second list of a
\* page
ListItems == << << <<"i">>, <<"j", " ">>, <<"k">> >>, << <<"l">> >> >>

\* list_items_text of the n-th list
list_items_text(n) == [i \in 1..Len(ListItems[n]) |-> clean_text_v1(ListItems[n][i])]

\* '<ul>' + f'<li>{item}</li>' for every item + '</ul>'
list_html(n) ==
    <<Piece("ul", <<>>)>>
    \o [i \in 1..Len(ListItems[n]) |-> Piece("li", list_items_text(n)[i])]
    \o <<Piece("/ul", <<>>)>>

\* `for list_element in lists`: the items of each list become the content
\* of the last section
RECURSIVE v1_generic_list(_, _)
v1_generic_list(secs, n) ==
    IF n = 0 THEN secs
    ELSE LET prev == v1_generic_list(secs, n - 1) IN
         IF prev # <<>>
         THEN [prev EXCEPT ![Len(prev)] =
                [@ EXCEPT !.is_list = TRUE, !.content = list_items_text(n)]]
         ELSE <<Section(FALSE, <<>>, TRUE, list_items_text(n), "generic")>>

\* content_html of the first n lists
RECURSIVE lists_html(_)
lists_html(n) == IF n = 0 THEN <<>> ELSE lists_html(n - 1) \o list_html(n)

\* headings, paragraphs and lists of the article element
v1_generic(g, title, c) ==
    [c EXCEPT
        !.html = Header(title)
                 \o (IF g.heading THEN <<Piece("h2", clean_text_v1(HeadText))>> ELSE <<>>)
                 \o [i \in 1..g.paras |-> Piece("p", clean_text_v1(ParaText))]
                 \o lists_html(g.lists)
                 \o Footer,
        !.html_by = "generic",
        !.sections =
            v1_generic_list(
                v1_generic_paras(
                    IF g.heading
                    THEN Append(@, Section(TRUE, clean_text_v1(HeadText), TRUE, <<>>, "generic"))
                    ELSE @,
                    g.paras),
                g.lists)]

\* the article with the title and a link to the entry; the sections are
\* left as they are
v1_fallback(title, url, c) ==
    [c EXCEPT
        !.html = <<Piece("article", <<>>), Piece("h1", title),
                   Piece("a", url), Piece("/article", <<>>)>>,
        !.html_by = "minimal"]

\* the extraction of collect: the script first, then '#main'
extract_v1(p, title, url) ==
    LET c == v1_script_more(p, title, v1_script_summary(p, NoContent)) IN
    IF c.html # <<>> THEN c
    ELSE CASE p.main = "none" -> v1_fallback(title, url, c)
           [] p.main = "target" -> v1_raw("target", title, c, "primary")
           [] p.main = "summary" -> v1_summary_element(title, c)
           [] p.main = "body" -> v1_body_element(title, c)
           [] p.main \in {"paras", "alt_paras"} -> v1_paragraph(title, c)
           [] p.main = "body_text" -> v1_raw("body_text", title, c, "chain")
           [] p.main = "detail" -> v1_raw("detail", title, c, "chain")
           [] p.main = "news" -> v1_raw("news", title, c, "chain")
           [] p.main = "generic" -> v1_generic(p.generic, title, c)

\* the date of v1: the script's datetime, the entry's date, datetime.now()
publish_date_v1(e, p) ==
    IF p.script.present /\ p.script.datetime = "good" THEN "script"
    ELSE IF entry_date(e) # "None" THEN entry_date(e)
    ELSE "now"

\* category_id = None, or the guess from the entry's category
category_id_v1(e) ==
    IF e.category = "absent" THEN NoneV ELSE IntV(guess_category_v1(e.category))

\* self.media_id of the v1 collector
MediaIdV1 == 1

\* the body of the for loop of collect, in the order of v4
process_entry_v1(k, e, p) ==
    IF ~e.has_link THEN Escaped
    ELSE IF p.fetch = "raise" THEN Skipped
    ELSE IF ~e.has_title THEN Skipped
    ELSE LET title == v1_title(p, clean_text_v1(e.title))
             ex == extract_v1(p, title, UrlOf(k)) IN
         Appended(NewsItem(k, MediaIdV1, title, UrlOf(k), ex.html,
                           publish_date_v1(e, p), category_id_v1(e), ex))

-----------------------------------------------------------------------------
(* NhkCollectorV3._collect_from_feed: one entry.                           *)

\* the element the selector list of _extract_content_from_html finds first.
\* A .body-text is part of a .content--detail-body with sections, which is
\* found before it
v3_main_content(p) ==
    IF p.article_nhk THEN "article_nhk"
    ELSE IF p.detail_body # "none" THEN "detail"
    ELSE IF p.news_text # "none" THEN "news"
    ELSE IF p.main = "target" THEN "target"
    ELSE IF p.main = "paras" THEN "paras"
    ELSE "none"

\* the p elements inside the element found: the paragraph of the sections of
\* a detail body, of a .news_text with paragraphs, of the target section
v3_paragraphs(p) ==
    IF \/ v3_main_content(p) = "detail" /\ p.detail_body = "sections"
       \/ v3_main_content(p) = "news" /\ p.news_text = "paras"
       \/ v3_main_content(p) = "target"
    THEN <<ParaText>>
    ELSE <<>>

\* _extract_content_from_html
extract_content_from_html_v3(p, url) ==
    LET title == IF p.page_title THEN PageTitle ELSE <<>>
        paras == SelectSeq(v3_paragraphs(p), LAMBDA t : clean_text_v1(t) # <<>>)
    IN  IF v3_main_content(p) # "none"
        THEN [html |-> <<Piece("article", <<>>), Piece("h1", title),
                         Piece("div_raw", <<v3_main_content(p)>>),
                         Piece("/article", <<>>)>>,
              html_by |-> "chain",
              structured |-> "dict",
              sections |-> [i \in 1..Len(paras) |->
                              Section(FALSE, <<>>, FALSE, <<clean_text_v1(paras[i])>>, "chain")]]
        ELSE [html |-> <<Piece("article", <<>>), Piece("h1", title),
                         Piece("a", url), Piece("/article", <<>>)>>,
              html_by |-> "minimal",
              structured |-> "dict",
              sections |-> <<Section(FALSE, <<>>, FALSE,
                                     <<title \o <<" ">> \o url>>, "minimal")>>]

\* _process_body_content on the JSON body of the script: one section for
\* each text item
process_body_content_v3(sc) ==
    [i \in 1..sc.body |-> Section(FALSE, <<>>, FALSE, <<BodyText>>, "embedded")]

\* _extract_content: "" and None when the fetch fails or the status is not
\* 200; else the article.nhk-article element and the script's body, or the
\* result of _extract_content_from_html when there is no such element
extract_content_v3(p, url) ==
    IF p.fetch # "ok"
    THEN [html |-> <<>>, html_by |-> "none", structured |-> "None", sections |-> <<>>]
    ELSE IF p.article_nhk
    THEN [html |-> <<Piece("raw", <<"article_nhk">>)>>,
          html_by |-> "primary",
          structured |-> IF p.script.present /\ p.script.json_body = "valid"
                         THEN "dict" ELSE "None",
          sections |-> IF p.script.present /\ p.script.json_body = "valid"
                       THEN process_body_content_v3(p.script) ELSE <<>>]
    ELSE extract_content_from_html_v3(p, url)

\* category_id = feed_info.get('news_category'), 3 for None and ''
category_id_v3(fi) ==
    IF fi.news_category \in {AbsentV, NoneV, EmptyStrV} THEN IntV(3) ELSE fi.news_category

\* the body of the for loop of _collect_from_feed
process_entry_v3(fi, k, e, p) ==
    LET title == IF e.has_title THEN e.title ELSE <<>>
        url == IF e.has_link THEN UrlOf(k) ELSE <<>>
        ex == extract_content_v3(p, url)
    IN  IF title = <<>> \/ url = <<>> THEN Skipped
        ELSE Appended(NewsItem(k, fi.media_id, title, url, ex.html,
                               parse_date_v3(e.published), category_id_v3(fi), ex))

-----------------------------------------------------------------------------
(* NHKCollectorV2.collect: one entry.                                      *)

\* the spelling of a label.  A label is named by a word ("seiji" for '政治');
\* its text is a sequence of characters, a kana or kanji written "#..."
\* (a character without case).  "tenki" ('天気') is not a key of any mapping
LabelText(l) ==
    CASE l = "seiji" -> <<"#sei", "#ji">>
      [] l = "keizai" -> <<"#kei", "#zai">>
      [] l = "shakai" -> <<"#sha", "#kai">>
      [] l = "kokusai" -> <<"#koku", "#sai">>
      [] l = "supotsu" -> <<"#su", "#po", "#-", "#tsu">>
      [] l = "kagaku_bunka" -> <<"#ka", "#gaku", "#.", "#bun", "#ka">>
      [] l = "entame" -> <<"#e", "#n", "#ta", "#me">>
      [] l = "IT_kagaku" -> <<"I", "T", "#.", "#ka", "#gaku">>
      [] l = "kokkai" -> <<"#koku", "#kai">>
      [] l = "tenki" -> <<"#ten", "#ki">>
      [] l = "politics" -> <<"p", "o", "l", "i", "t", "i", "c", "s">>
      [] l = "business" -> <<"b", "u", "s", "i", "n", "e", "s", "s">>
      [] l = "economy" -> <<"e", "c", "o", "n", "o", "m", "y">>
      [] l = "society" -> <<"s", "o", "c", "i", "e", "t", "y">>
      [] l = "international" ->
            <<"i", "n", "t", "e", "r", "n", "a", "t", "i", "o", "n", "a", "l">>
      [] l = "world" -> <<"w", "o", "r", "l", "d">>
      [] l = "sports" -> <<"s", "p", "o", "r", "t", "s">>
      [] l = "culture" -> <<"c", "u", "l", "t", "u", "r", "e">>
      [] l = "entertainment" ->
            <<"e", "n", "t", "e", "r", "t", "a", "i", "n", "m", "e", "n", "t">>
      [] l = "science" -> <<"s", "c", "i", "e", "n", "c", "e">>
      [] l = "tech" -> <<"t", "e", "c", "h">>

LowerLetters ==
    <<"a", "b", "c", "d", "e", "f", "g", "h", "i", "j", "k", "l", "m",
      "n", "o", "p", "q", "r", "s", "t", "u", "v", "w", "x", "y", "z">>

UpperLetters ==
    <<"A", "B", "C", "D", "E", "F", "G", "H", "I", "J", "K", "L", "M",
      "N", "O", "P", "Q", "R", "S", "T", "U", "V", "W", "X", "Y", "Z">>

\* str.lower() and str.upper(): the letters change case, every other
\* character stays
str_lower(s) ==
    [i \in 1..Len(s) |->
        IF \E a \in DOMAIN UpperLetters : UpperLetters[a] = s[i]
        THEN LowerLetters[CHOOSE a \in DOMAIN UpperLetters : UpperLetters[a] = s[i]]
        ELSE s[i]]

str_upper(s) ==
    [i \in 1..Len(s) |->
        IF \E a \in DOMAIN LowerLetters : LowerLetters[a] = s[i]
        THEN UpperLetters[CHOOSE a \in DOMAIN LowerLetters : LowerLetters[a] = s[i]]
        ELSE s[i]]

\* the argument of _guess_category: a string, or a value that is no string
StrArg(t) == [is_str |-> TRUE, text |-> t]
NotStrArg == [is_str |-> FALSE, text |-> <<>>]

\* dict.get(key, default) on a mapping whose keys are named by words
dict_get(mapping, key, default) ==
    IF \E k \in DOMAIN mapping : LabelText(k) = key
    THEN mapping[CHOOSE k \in DOMAIN mapping : LabelText(k) = key]
    ELSE default

\* NHKCollectorV2._guess_category: category_mapping.get(category, 3), the
\* label looked up as it is
category_mapping_v2 ==
    [l \in {"seiji", "keizai", "shakai", "kokusai", "supotsu", "kagaku_bunka",
            "entame", "IT_kagaku", "politics", "business", "economy",
            "society", "international", "world", "sports", "culture",
            "entertainment", "science", "tech"} |->
        CASE l \in {"seiji", "politics"} -> 1
          [] l \in {"keizai", "business", "economy"} -> 2
          [] l \in {"shakai", "society"} -> 3
          [] l \in {"kokusai", "international", "world"} -> 4
          [] l \in {"supotsu", "sports"} -> 5
          [] l \in {"kagaku_bunka", "culture"} -> 6
          [] l \in {"entame", "entertainment"} -> 7
          [] l \in {"IT_kagaku", "science", "tech"} -> 8]

guess_category_str_v2(category) ==
    IF category.is_str THEN dict_get(category_mapping_v2, category.text, 3) ELSE 3

\* the guess for the label of a page
guess_category_v2(label) == guess_category_str_v2(StrArg(LabelText(label)))

\* NhkCollectorV3._guess_category: the mapping of v2 and '国会'; the label
\* is looked up in lower case, and '' is looked up for a label that is not
\* a string
category_mapping_v3 ==
    [l \in {"seiji", "keizai", "shakai", "kokusai", "supotsu", "kagaku_bunka",
            "entame", "IT_kagaku", "politics", "business", "economy",
            "society", "international", "world", "sports", "culture",
            "entertainment", "science", "tech", "kokkai"} |->
        CASE l \in {"seiji", "politics", "kokkai"} -> 1
          [] l \in {"keizai", "business", "economy"} -> 2
          [] l \in {"shakai", "society"} -> 3
          [] l \in {"kokusai", "international", "world"} -> 4
          [] l \in {"supotsu", "sports"} -> 5
          [] l \in {"kagaku_bunka", "culture"} -> 6
          [] l \in {"entame", "entertainment"} -> 7
          [] l \in {"IT_kagaku", "science", "tech"} -> 8]

guess_category_str_v3(category) ==
    dict_get(category_mapping_v3,
             IF category.is_str THEN str_lower(category.text) ELSE <<>>, 3)

\* the label found on the page takes the place of the category of the CSV
category_v2_label_first(cat, label) ==
    IF label # "none" THEN IntV(guess_category_v2(label)) ELSE cat

\* 'if category_id is not None' keeps the category of the CSV; else the
\* label of the script ('category:') or of the header, when there is one,
\* is guessed and assigned to category_id
category_v2(cat, label) ==
    IF cat # NoneV THEN cat
    ELSE IF label # "none" THEN IntV(guess_category_v2(label))
    ELSE cat

\* publish_date, a local variable of collect: not yet assigned, or assigned
\* while entry k was processed from the script or from the entry
Unbound == <<"unbound", 0>>
DateOf(from, k) == <<from, k>>

\* the record's date: the value of publish_date, "stale" when it was
\* assigned while an earlier entry was processed
item_date_v2(pdate, k) == IF pdate[2] = k THEN pdate[1] ELSE "stale"

\* the script branch up to the category: the title, the summary and the
\* body section, then the date.  `raised` is an exception inside the try,
\* which 'except Exception' logs
v2_script_date(pdate, k, e, sc) ==
    IF sc.datetime = "good" THEN [publish_date |-> DateOf("script", k), raised |-> FALSE]
    ELSE IF e.published # "absent" /\ parsedate_ok(e.published)
    THEN [publish_date |-> DateOf("entry", k), raised |-> FALSE]
    ELSE [publish_date |-> pdate, raised |-> TRUE]

v2_script_sections(sc) ==
    (IF sc.summary
     THEN <<Section(TRUE, <<"summary">>, FALSE, <<clean_text_v1(SummaryText)>>, "embedded")>>
     ELSE <<>>)
    \o (IF sc.body = 1
        THEN <<Section(TRUE, <<"body">>, FALSE, <<clean_text_v1(BodyText)>>, "embedded")>>
        ELSE <<>>)

\* _extract_structured_content on the content section: a heading opens a
\* section, a paragraph goes to the open section or opens one headed '本文'
v2_structured_content(kind) ==
    CASE kind = "plain" -> <<>>
      [] kind = "p" ->
            <<Section(TRUE, <<"body">>, FALSE, <<clean_text_v1(ParaText)>>, "primary")>>
      [] kind = "h_p" ->
            <<Section(TRUE, clean_text_v1(HeadText), FALSE,
                      <<clean_text_v1(ParaText)>>, "primary")>>

\* content_html or "No content available"
NoContentAvailable == <<Piece("text", <<"No content available">>)>>

\* the extraction of v2: the script branch leaves content_html empty
extract_v2(p) ==
    IF p.script.present
    THEN [html |-> NoContentAvailable, html_by |-> "none", structured |-> "dict",
          sections |-> v2_script_sections(p.script)]
    ELSE IF p.content_section # "none"
    THEN [html |-> <<Piece("raw", <<"content_section">>)>>, html_by |-> "primary",
          structured |-> "dict", sections |-> v2_structured_content(p.content_section)]
    ELSE [html |-> NoContentAvailable, html_by |-> "none", structured |-> "dict",
          sections |-> <<>>]

\* the title of the entry, or the title of the script
v2_title(e, p) ==
    IF p.script.present /\ p.script.title THEN clean_text_v1(ScriptTitle)
    ELSE clean_text_v1(e.title)

\* what one entry does to the loop and to category_id and publish_date
StepV2(r, cat, pdate) == [kind |-> r.kind, item |-> r.item, category_id |-> cat, publish_date |-> pdate]

\* the body of the for loop of collect.  entry.link of an entry without
\* link raises in the handler of the entry too.  With a script, a date that
\* cannot be read leaves publish_date as it was and skips the category; with
\* no script it skips the entry.  publish_date.isoformat() raises when
\* publish_date was never assigned
process_entry_v2(media_id, cat, pdate, k, e, p) ==
    IF ~e.has_link THEN StepV2(Escaped, cat, pdate)
    ELSE IF p.fetch = "raise" \/ ~e.has_title THEN StepV2(Skipped, cat, pdate)
    ELSE IF p.script.present
    THEN LET d == v2_script_date(pdate, k, e, p.script)
             c == IF d.raised THEN cat ELSE category_v2(cat, p.script.category)
         IN  IF d.publish_date = Unbound THEN StepV2(Skipped, c, d.publish_date)
             ELSE StepV2(Appended(NewsItem(k, media_id, v2_title(e, p), UrlOf(k),
                                           extract_v2(p).html,
                                           item_date_v2(d.publish_date, k), c,
                                           extract_v2(p))),
                         c, d.publish_date)
    ELSE IF ~(e.published # "absent" /\ parsedate_ok(e.published))
    THEN StepV2(Skipped, cat, pdate)
    ELSE LET c == category_v2(cat, p.header_category) IN
         StepV2(Appended(NewsItem(k, media_id, v2_title(e, p), UrlOf(k),
                                  extract_v2(p).html, "entry", c, extract_v2(p))),
                c, DateOf("entry", k))

-----------------------------------------------------------------------------
(* Calls of _guess_category.                                               *)

\* the labels _guess_category is called with: every key of the mapping and
\* a label that is no key, as spelled, in upper case and in lower case, the
\* empty string, and a value that is no string
GuessLabels ==
    UNION { {StrArg(LabelText(l)), StrArg(str_upper(LabelText(l))),
             StrArg(str_lower(LabelText(l)))} :
            l \in DOMAIN category_mapping_v3 \cup {"tenki"} }
    \cup {StrArg(<<>>), NotStrArg}

GuessInit ==
    /\ gvariant \in {"v2", "v3"}
    /\ glabel \in GuessLabels
    /\ gresult = 0
    /\ gpc = "call"

\* return category_mapping.get(...)
GuessReturn ==
    /\ gpc = "call"
    /\ gresult' = IF gvariant = "v2" THEN guess_category_str_v2(glabel)
                  ELSE guess_category_str_v3(glabel)
    /\ gpc' = "done"
    /\ UNCHANGED <<gvariant, glabel>>

\* no call
GuessIdle ==
    /\ gvariant = "v2"
    /\ glabel = NotStrArg
    /\ gresult = 0
    /\ gpc = "off"

-----------------------------------------------------------------------------
(* BaseCollectorV2.load_active_feeds.                                      *)

\* a row of the CSV file.  active is the text of the cell; news_category,
\* source_link and script_file_name tell whether the cell holds a value
\* (an empty cell is read as NaN); source_id is the number of the row
CsvRows ==
    [active : {"TRUE", "FALSE", "Yes"},
     news_category : BOOLEAN,
     source_type : {"RSS", "API"},
     source_link : BOOLEAN,
     script_file_name : BOOLEAN]

\* a complete row of an RSS feed
FullRow(a) ==
    [active |-> a, news_category |-> TRUE, source_type |-> "RSS",
     source_link |-> TRUE, script_file_name |-> TRUE]

\* pd.read_csv reads a column whose cells are all TRUE or FALSE as bool,
\* any other column of text as strings
read_csv_bool(rows) == \A i \in 1..Len(rows) : rows[i].active \in {"TRUE", "FALSE"}

\* feeds_df['active'] after .map({'TRUE': True, 'FALSE': False}) and
\* .astype(bool): a value that is no key of the dict (the bools of a bool
\* column, any other string) maps to NaN, and NaN becomes True
active_column(rows) ==
    [i \in 1..Len(rows) |->
        IF read_csv_bool(rows) THEN TRUE
        ELSE IF rows[i].active = "TRUE" THEN TRUE
        ELSE IF rows[i].active = "FALSE" THEN FALSE
        ELSE TRUE]

\* the row filter: active, news_category not null, and for source_type
\* 'RSS' source_link and script_file_name not null
row_selected(rows, i) ==
    /\ active_column(rows)[i]
    /\ rows[i].news_category
    /\ \/ rows[i].source_type # "RSS"
       \/ /\ rows[i].source_type = "RSS"
          /\ rows[i].source_link
          /\ rows[i].script_file_name

\* [required_columns].to_dict('records')
to_dict(rows, i) ==
    [source_id |-> i, news_category |-> rows[i].news_category,
     source_link |-> rows[i].source_link,
     script_file_name |-> rows[i].script_file_name]

RECURSIVE SelectRows(_, _)
SelectRows(rows, i) ==
    IF i > Len(rows) THEN <<>>
    ELSE (IF row_selected(rows, i) THEN <<to_dict(rows, i)>> ELSE <<>>)
         \o SelectRows(rows, i + 1)

load_active_feeds(exists, rows) == IF exists THEN SelectRows(rows, 1) ELSE <<>>

\* the CSV files: one row of any kind, alone or before a complete row
LoadInit ==
    /\ csv_exists \in BOOLEAN
    /\ \E r \in CsvRows :
          \/ csv_rows = <<r>>
          \/ \E a \in {"TRUE", "FALSE", "Yes"} : csv_rows = <<r, FullRow(a)>>
    /\ active_feeds = <<>>
    /\ lpc = "call"

LoadReturn ==
    /\ lpc = "call"
    /\ active_feeds' = load_active_feeds(csv_exists, csv_rows)
    /\ lpc' = "done"
    /\ UNCHANGED <<csv_exists, csv_rows>>

\* no call
LoadIdle ==
    /\ csv_exists = FALSE
    /\ csv_rows = <<>>
    /\ active_feeds = <<>>
    /\ lpc = "off"

-----------------------------------------------------------------------------
(* validate of NHKCollectorV2 and NhkCollectorV3.                          *)

MaxItems == 2

\* what session.head(item.url, timeout=5) does: a response with status 200
\* or another status, asyncio.TimeoutError, aiohttp.ClientError, or another
\* exception
HeadOutcomes == {"ok", "non200", "timeout", "client_error", "other_error"}

\* an item to validate: whether title and url are non-empty, and what the
\* HEAD request to its URL does
ValidateItems == [title : BOOLEAN, url : BOOLEAN, head : HeadOutcomes]

\* v3 for one item: True when the item is appended.  The check runs only
\* with a session; a status other than 200, a timeout and a client error
\* are logged; any other exception reaches the outer except
validate_item_v3(session, item) ==
    IF ~(item.title /\ item.url) THEN FALSE
    ELSE IF ~session THEN TRUE
    ELSE item.head # "other_error"

\* v2 for one item: without a session RuntimeError is raised into the
\* outer except; a status other than 200 takes `continue`; only
\* asyncio.TimeoutError is caught by the inner except
validate_item_v2(session, item) ==
    IF ~(item.title /\ item.url) THEN FALSE
    ELSE IF ~session THEN FALSE
    ELSE item.head \in {"ok", "timeout"}

ValidateInit ==
    /\ vvariant \in {"v2", "v3"}
    /\ has_session \in BOOLEAN
    /\ vitems \in UNION { [1..n -> ValidateItems] : n \in 0..MaxItems }
    /\ vidx = 1
    /\ validated_items = <<>>
    /\ vpc = "loop"

\* one iteration of `for item in items`
ValidateItem ==
    /\ vpc = "loop"
    /\ vidx <= Len(vitems)
    /\ validated_items' =
          IF (IF vvariant = "v2" THEN validate_item_v2(has_session, vitems[vidx])
                                 ELSE validate_item_v3(has_session, vitems[vidx]))
          THEN Append(validated_items, vidx)
          ELSE validated_items
    /\ vidx' = vidx + 1
    /\ UNCHANGED <<vvariant, has_session, vitems, vpc>>

\* return validated_items
ValidateReturn ==
    /\ vpc = "loop"
    /\ vidx > Len(vitems)
    /\ vpc' = "done"
    /\ UNCHANGED <<vvariant, has_session, vitems, vidx, validated_items>>

\* no call
ValidateIdle ==
    /\ vvariant = "v2"
    /\ has_session = FALSE
    /\ vitems = <<>>
    /\ vidx = 1
    /\ validated_items = <<>>
    /\ vpc = "off"

-----------------------------------------------------------------------------
(* _extract_structured_content: the walk over the children of the content  *)
(* section.                                                                *)

\* number of child elements of a content section
MaxChildren == 3

\* the text of the child at position i ends with the digit of the position
Digits == <<"1", "2", "3", "4">>

\* a child element: a heading, a paragraph, a paragraph of white space, a
\* list of one or two items, or an element of another kind
ElementKinds == {"h", "p", "p_blank", "ul1", "ul2", "div"}

Element(kind, i) ==
    CASE kind = "h" -> [name |-> "h2", txt |-> <<" ", "h", Digits[i]>>, li |-> <<>>]
      [] kind = "p" -> [name |-> "p", txt |-> <<"p", " ", " ", Digits[i]>>, li |-> <<>>]
      [] kind = "p_blank" -> [name |-> "p", txt |-> <<" ", NBSP>>, li |-> <<>>]
      [] kind = "ul1" -> [name |-> "ul", txt |-> <<>>, li |-> << <<"i", Digits[i]>> >>]
      [] kind = "ul2" -> [name |-> "ul", txt |-> <<>>,
                          li |-> << <<"i", Digits[i]>>, <<"j", Digits[i], " ">> >>]
      [] OTHER -> [name |-> "div", txt |-> <<"d">>, li |-> <<>>]

\* list_items: the cleaned text of every li of the element
list_items(el) == [j \in 1..Len(el.li) |-> clean_text_v1(el.li[j])]

\* one iteration of `for element in content_section.children` of the v1
\* collector.  current_section is the dictionary appended last to
\* result['sections'].  A heading opens a section whose content is a list;
\* a paragraph is appended to a content that is a list and assigned to a
\* content that is a string; a list is assigned to the content
walk_element_v1(secs, el) ==
    LET n == Len(secs)
        t == clean_text_v1(el.txt)
    IN  CASE el.name = "h2" -> Append(secs, Section(TRUE, t, TRUE, <<>>, "walk"))
          [] el.name = "p" ->
                IF t = <<>> THEN secs
                ELSE IF n = 0 THEN Append(secs, Section(FALSE, <<>>, FALSE, <<t>>, "walk"))
                ELSE IF secs[n].is_list
                THEN [secs EXCEPT ![n].content = Append(@, t)]
                ELSE [secs EXCEPT ![n].content = <<t>>]
          [] el.name = "ul" ->
                IF list_items(el) = <<>> THEN secs
                ELSE IF n = 0
                THEN Append(secs, Section(FALSE, <<>>, TRUE, list_items(el), "walk"))
                ELSE [secs EXCEPT ![n].content = list_items(el), ![n].is_list = TRUE]
          [] OTHER -> secs

\* the same iteration of the v2 collector: a paragraph is appended to the
\* content of the open section or opens a section headed '本文'; there is
\* no branch for lists
walk_element_v2(secs, el) ==
    LET n == Len(secs)
        t == clean_text_v1(el.txt)
    IN  CASE el.name = "h2" -> Append(secs, Section(TRUE, t, TRUE, <<>>, "walk"))
          [] el.name = "p" ->
                IF t = <<>> THEN secs
                ELSE IF n = 0
                THEN Append(secs, Section(TRUE, <<"body">>, TRUE, <<t>>, "walk"))
                ELSE [secs EXCEPT ![n].content = Append(@, t)]
          [] OTHER -> secs

WalkInit ==
    /\ wvariant \in {"v1", "v2"}
    /\ \E n \in 0..MaxChildren : \E kinds \in [1..n -> ElementKinds] :
          children = [i \in 1..n |-> Element(kinds[i], i)]
    /\ widx = 1
    /\ walk_sections = <<>>
    /\ wpc = "loop"

\* one iteration of the for loop
WalkElement ==
    /\ wpc = "loop"
    /\ widx <= Len(children)
    /\ walk_sections' = IF wvariant = "v1"
                        THEN walk_element_v1(walk_sections, children[widx])
                        ELSE walk_element_v2(walk_sections, children[widx])
    /\ widx' = widx + 1
    /\ UNCHANGED <<wvariant, children, wpc>>

\* return result
WalkReturn ==
    /\ wpc = "loop"
    /\ widx > Len(children)
    /\ wpc' = "done"
    /\ UNCHANGED <<wvariant, children, widx, walk_sections>>

\* no call
WalkIdle ==
    /\ wvariant = "v1"
    /\ children = <<>>
    /\ widx = 1
    /\ walk_sections = <<>>
    /\ wpc = "off"

-----------------------------------------------------------------------------
(* One run of a collector over one feed.                                   *)

Variants == {"v1", "v2", "v3", "v4"}

\* news_category of a feed descriptor: missing, None, NaN, '' or an ID
ConfigCategories == {AbsentV, NoneV, NaNV, EmptyStrV, IntV(2)}

BaseFeedInfo == [source_link |-> TRUE, media_id |-> 1, news_category |-> IntV(2)]

\* the descriptors given to a collector; media_id 0 is a missing media_id
FeedInfos ==
    { [BaseFeedInfo EXCEPT !.news_category = c] : c \in ConfigCategories }
    \cup { [BaseFeedInfo EXCEPT !.source_link = FALSE],
           [BaseFeedInfo EXCEPT !.media_id = 0] }

\* the feed without a category in the CSV file
UncategorizedFeedInfo == [BaseFeedInfo EXCEPT !.news_category = NaNV]

\* v1 takes the feed URL and the media from the collector object; v2 reads
\* the rows of media 1 from the CSV file itself
FeedInfosOf(v) ==
    CASE v = "v1" -> {BaseFeedInfo}
      [] v = "v2" -> {BaseFeedInfo, UncategorizedFeedInfo,
                      [BaseFeedInfo EXCEPT !.source_link = FALSE]}
      [] OTHER -> FeedInfos

EntryWithPage(e, p) == [e |-> e, p |-> p]

\* pages every entry is tried with
CorePages == { EmptyPage, RaisingPage, [EmptyPage EXCEPT !.fetch = "non200"] }

\* entries of a feed with several entries
BasicEntries ==
    { EntryWithPage(BaseEntry, EmptyPage),
      EntryWithPage(BaseEntry, RaisingPage),
      EntryWithPage(BaseEntry, [EmptyPage EXCEPT !.fetch = "non200"]),
      EntryWithPage([BaseEntry EXCEPT !.has_link = FALSE], EmptyPage),
      EntryWithPage([BaseEntry EXCEPT !.has_title = FALSE, !.title = <<>>], EmptyPage) }

RECURSIVE SeqsOf(_, _)
SeqsOf(S, n) ==
    IF n = 0 THEN {<<>>}
    ELSE { Append(q, x) : q \in SeqsOf(S, n - 1), x \in S }

\* the collector `v` is given the descriptor `fi` and the feed `q`
FeedIs(v, fi, ok, q) ==
    /\ variant = v
    /\ feed_info = fi
    /\ index_ok = ok
    /\ entries = q

\* entries of a feed of v2, whose loop carries category_id and publish_date
\* from one entry to the next
CarryEntries ==
    { EntryWithPage(BaseEntry,
                    [EmptyPage EXCEPT !.script = [NoScript EXCEPT !.present = TRUE,
                                                                  !.datetime = "good",
                                                                  !.category = "seiji"]]),
      EntryWithPage([BaseEntry EXCEPT !.published = "absent"],
                    [EmptyPage EXCEPT !.script = [NoScript EXCEPT !.present = TRUE,
                                                                  !.summary = TRUE,
                                                                  !.category = "tenki"],
                                      !.content_section = "p"]),
      EntryWithPage(BaseEntry, [EmptyPage EXCEPT !.header_category = "tenki"]),
      EntryWithPage([BaseEntry EXCEPT !.published = "bad"], EmptyPage) }

\* the feeds: one dated or undated entry with any page, any entry with a
\* core page and any descriptor, no entry, and 2..MaxEntries basic entries;
\* for v2 also the feed without category, with any page and with
\* 2..MaxEntries of the entries above
FeedInit ==
    /\ \E v \in Variants :
        \/ \E p \in PagesOf(v),
              e \in {BaseEntry, [BaseEntry EXCEPT !.published = "absent"]} :
                FeedIs(v, BaseFeedInfo, TRUE, <<EntryWithPage(e, p)>>)
        \/ \E fi \in FeedInfosOf(v), e \in Entries, p \in CorePages :
                FeedIs(v, fi, TRUE, <<EntryWithPage(e, p)>>)
        \/ \E ok \in BOOLEAN : FeedIs(v, BaseFeedInfo, ok, <<>>)
        \/ \E n \in 2..MaxEntries : \E q \in SeqsOf(BasicEntries, n) :
                FeedIs(v, BaseFeedInfo, TRUE, q)
        \/ /\ v = "v2"
           /\ \/ \E p \in PagesOf(v),
                    e \in {BaseEntry, [BaseEntry EXCEPT !.published = "absent"]} :
                      FeedIs(v, UncategorizedFeedInfo, TRUE, <<EntryWithPage(e, p)>>)
              \/ \E n \in 2..MaxEntries : \E q \in SeqsOf(CarryEntries, n) :
                      FeedIs(v, UncategorizedFeedInfo, TRUE, q)
    /\ eidx = 0
    /\ items = <<>>
    /\ v2_category_id = NoneV
    /\ v2_publish_date = Unbound
    /\ session_given \in IF variant \in {"v3", "v4"} THEN BOOLEAN ELSE {FALSE}
    /\ passed_session = IF session_given THEN "open" ELSE "none"
    /\ own_session = "none"
    /\ fpc = "start"

\* The sessions of a run: the one the caller passed and the one the run
\* created.  v4 get_news and v3 collect take the session as an argument;
\* the run of v3 is collect over the one active feed.  The sessions of v1
\* and v2, which collect never closes, are not followed
Sessions(own, passed) == [own |-> own, passed |-> passed]

\* `if session is None: session = aiohttp.ClientSession()`
create_session(v, given, s) ==
    IF v \in {"v3", "v4"} /\ ~given THEN [s EXCEPT !.own = "open"] ELSE s

\* the finally of get_news, were it to close whatever session it holds
finally_v4_any(s) ==
    IF s.own # "none" THEN [s EXCEPT !.own = "closed"]
    ELSE IF s.passed # "none" THEN [s EXCEPT !.passed = "closed"]
    ELSE s

\* the finally of get_news: `if session_created and session: await session.close()`
finally_v4(s) ==
    IF s.own # "none" THEN [s EXCEPT !.own = "closed"] ELSE s

\* the finally of collect of v3:
\* `if self.session and session is None: await self.session.close()`
finally_v3(given, s) ==
    IF ~given /\ s.own # "none" THEN [s EXCEPT !.own = "closed"] ELSE s

\* the sessions when the run goes to position pc: the finally runs on
\* every way out of the function
leave(v, given, s, pc) ==
    IF pc \notin {"returned", "error", "save_failed", "raised"} THEN s
    ELSE CASE v = "v4" -> finally_v4(s)
           [] v = "v3" -> finally_v3(given, s)
           [] OTHER -> s

\* up to the for loop: the checks of the descriptor and the fetch of the
\* feed.  v4 returns an error for a descriptor without source_link or
\* media_id and for a fetch that raises; v1 has no try around the fetch; v3
\* returns [] without source_link, and feedparser.parse(url) does not raise;
\* v2 takes category_id from the row of the CSV file (None for an empty
\* cell), and its try around the feed catches a fetch that raises
csv_category_v2(fi) == IF fi.news_category[1] = "int" THEN fi.news_category ELSE NoneV

FeedOpen ==
    /\ fpc = "start"
    /\ fpc' = CASE variant = "v4" ->
                    IF ~feed_info.source_link \/ feed_info.media_id = 0 \/ ~index_ok
                    THEN "error" ELSE "loop"
                [] variant = "v1" -> IF ~index_ok THEN "raised" ELSE "loop"
                [] variant = "v3" -> IF ~feed_info.source_link THEN "returned" ELSE "loop"
                [] variant = "v2" ->
                    IF ~feed_info.source_link \/ ~index_ok THEN "returned" ELSE "loop"
    /\ eidx' = 1
    /\ v2_category_id' = IF variant = "v2" THEN csv_category_v2(feed_info)
                       ELSE v2_category_id
    /\ \E s \in { leave(variant, session_given,
                         IF variant = "v4"
                            /\ (~feed_info.source_link \/ feed_info.media_id = 0)
                         THEN Sessions(own_session, passed_session)
                         ELSE create_session(variant, session_given,
                                             Sessions(own_session, passed_session)),
                         fpc') } :
          /\ own_session' = s.own
          /\ passed_session' = s.passed
    /\ UNCHANGED <<variant, feed_info, index_ok, entries, items, v2_publish_date,
                   session_given>>

process_entry(v, fi, k, e, p) ==
    CASE v = "v1" -> process_entry_v1(k, e, p)
      [] v = "v3" -> process_entry_v3(fi, k, e, p)
      [] v = "v4" -> process_entry_v4(fi, k, e, p)

\* one iteration of the for loop.  An exception that leaves the loop is
\* caught by the outer try of v4 (the result is an error), by the try
\* around the feed of v2 (the items collected so far are kept) and by
\* nothing in v1 (collect raises)
FeedEntry ==
    /\ fpc = "loop"
    /\ eidx <= Len(entries)
    /\ \E r \in { IF variant = "v2"
                   THEN process_entry_v2(feed_info.media_id, v2_category_id,
                                         v2_publish_date, eidx,
                                         entries[eidx].e, entries[eidx].p)
                   ELSE LET q == process_entry(variant, feed_info, eidx,
                                               entries[eidx].e, entries[eidx].p)
                        IN  [kind |-> q.kind, item |-> q.item,
                             category_id |-> v2_category_id,
                             publish_date |-> v2_publish_date] } :
        /\ items' = items \o r.item
        /\ v2_category_id' = r.category_id
        /\ v2_publish_date' = r.publish_date
        /\ fpc' = IF r.kind = "escape"
                  THEN (CASE variant = "v4" -> "error"
                          [] variant = "v2" -> "returned"
                          [] OTHER -> "raised")
                  ELSE "loop"
    /\ eidx' = eidx + 1
    /\ \E s \in { leave(variant, session_given,
                         Sessions(own_session, passed_session), fpc') } :
          /\ own_session' = s.own
          /\ passed_session' = s.passed
    /\ UNCHANGED <<variant, feed_info, index_ok, entries, session_given>>

\* after the loop: v1 and v3 return the items; v4 saves them when there are
\* any, and with no items builds a result from source_id, a local variable
\* that is assigned only when there are items
FeedLoopEnd ==
    /\ fpc = "loop"
    /\ eidx > Len(entries)
    /\ fpc' = IF variant = "v4"
              THEN (IF items # <<>> THEN "save" ELSE "error")
              ELSE "returned"
    /\ \E s \in { leave(variant, session_given,
                         Sessions(own_session, passed_session), fpc') } :
          /\ own_session' = s.own
          /\ passed_session' = s.passed
    /\ UNCHANGED <<variant, feed_info, index_ok, entries, eidx, items,
                   v2_category_id, v2_publish_date, session_given>>

\* v4 writes the CSV file; a failure of the write returns an error
\* ("save_failed") in place of the items
FeedSave ==
    /\ fpc = "save"
    /\ \E csv_ok \in BOOLEAN : fpc' = IF csv_ok THEN "returned" ELSE "save_failed"
    /\ \E s \in { leave(variant, session_given,
                         Sessions(own_session, passed_session), fpc') } :
          /\ own_session' = s.own
          /\ passed_session' = s.passed
    /\ UNCHANGED <<variant, feed_info, index_ok, entries, eidx, items,
                   v2_category_id, v2_publish_date, session_given>>

\* no collector run
FeedIdle ==
    /\ variant = "v1"
    /\ feed_info = BaseFeedInfo
    /\ index_ok = TRUE
    /\ entries = <<>>
    /\ eidx = 0
    /\ items = <<>>
    /\ v2_category_id = NoneV
    /\ v2_publish_date = Unbound
    /\ session_given = FALSE
    /\ passed_session = "none"
    /\ own_session = "none"
    /\ fpc = "off"

\* the value the collector run gave back
FeedDone == fpc \in {"returned", "error", "save_failed", "raised"}

\* the 'items' of the result: the items collected in a normal result; the
\* dictionary {'error': str(e)} of the other returns has no 'items'
result_items(pc, its) == IF pc = "returned" THEN its ELSE <<>>
-----------------------------------------------------------------------------
(* Specifications.                                                         *)

vars == <<cvars, dvars, fvars, gvars, lvars, svars, wvars>>

CleanNext ==
    \/ CleanEmpty /\ UNCHANGED <<dvars, fvars, gvars, lvars, svars, wvars>>
    \/ CleanBegin /\ UNCHANGED <<dvars, fvars, gvars, lvars, svars, wvars>>
    \/ DecodePass /\ UNCHANGED <<dvars, fvars, gvars, lvars, svars, wvars>>
    \/ CleanFinish /\ UNCHANGED <<dvars, fvars, gvars, lvars, svars, wvars>>
    \/ CleanV4 /\ UNCHANGED <<dvars, fvars, gvars, lvars, svars, wvars>>
    \/ CleanAgain /\ UNCHANGED <<dvars, fvars, gvars, lvars, svars, wvars>>

InitClean == CleanInit /\ DispatchIdle /\ FeedIdle /\ GuessIdle /\ LoadIdle /\ ValidateIdle /\ WalkIdle

SpecClean == InitClean /\ [][CleanNext]_vars

DispatchNext ==
    \/ MainOpen /\ UNCHANGED <<cvars, fvars, gvars, lvars, svars, wvars>>
    \/ DispatchSkip /\ UNCHANGED <<cvars, fvars, gvars, lvars, svars, wvars>>
    \/ DispatchFeed /\ UNCHANGED <<cvars, fvars, gvars, lvars, svars, wvars>>
    \/ DispatchHang /\ UNCHANGED <<cvars, fvars, gvars, lvars, svars, wvars>>
    \/ DispatchLoopEnd /\ UNCHANGED <<cvars, fvars, gvars, lvars, svars, wvars>>
    \/ DispatchSave /\ UNCHANGED <<cvars, fvars, gvars, lvars, svars, wvars>>

InitDispatch == DispatchInit /\ CleanIdle /\ FeedIdle /\ GuessIdle /\ LoadIdle /\ ValidateIdle /\ WalkIdle

SpecDispatch == InitDispatch /\ [][DispatchNext]_vars

\* the event loop runs the coroutine of the dispatcher whenever it can
\* take a step
SpecDispatchFair == SpecDispatch /\ WF_vars(DispatchNext)

FeedNext ==
    \/ FeedOpen /\ UNCHANGED <<cvars, dvars, gvars, lvars, svars, wvars>>
    \/ FeedEntry /\ UNCHANGED <<cvars, dvars, gvars, lvars, svars, wvars>>
    \/ FeedLoopEnd /\ UNCHANGED <<cvars, dvars, gvars, lvars, svars, wvars>>
    \/ FeedSave /\ UNCHANGED <<cvars, dvars, gvars, lvars, svars, wvars>>

InitFeed == FeedInit /\ CleanIdle /\ DispatchIdle /\ GuessIdle /\ LoadIdle /\ ValidateIdle /\ WalkIdle

SpecFeed == InitFeed /\ [][FeedNext]_vars

GuessNext == GuessReturn /\ UNCHANGED <<cvars, dvars, fvars, lvars, svars, wvars>>

InitGuess == GuessInit /\ CleanIdle /\ DispatchIdle /\ FeedIdle /\ LoadIdle /\ ValidateIdle /\ WalkIdle

SpecGuess == InitGuess /\ [][GuessNext]_vars

LoadNext == LoadReturn /\ UNCHANGED <<cvars, dvars, fvars, gvars, svars, wvars>>

InitLoad == LoadInit /\ CleanIdle /\ DispatchIdle /\ FeedIdle /\ GuessIdle /\ ValidateIdle /\ WalkIdle

SpecLoad == InitLoad /\ [][LoadNext]_vars

ValidateNext ==
    \/ ValidateItem /\ UNCHANGED <<cvars, dvars, fvars, gvars, lvars, wvars>>
    \/ ValidateReturn /\ UNCHANGED <<cvars, dvars, fvars, gvars, lvars, wvars>>

InitValidate ==
    ValidateInit /\ CleanIdle /\ DispatchIdle /\ FeedIdle /\ GuessIdle /\ LoadIdle /\ WalkIdle

SpecValidate == InitValidate /\ [][ValidateNext]_vars

WalkNext ==
    \/ WalkElement /\ UNCHANGED <<cvars, dvars, fvars, gvars, lvars, svars>>
    \/ WalkReturn /\ UNCHANGED <<cvars, dvars, fvars, gvars, lvars, svars>>

InitWalk ==
    WalkInit /\ CleanIdle /\ DispatchIdle /\ FeedIdle /\ GuessIdle /\ LoadIdle /\ ValidateIdle

SpecWalk == InitWalk /\ [][WalkNext]_vars

-----------------------------------------------------------------------------
(* Claims about the dispatcher.                                            *)

\* position in `results` of the slot of feed k
Slot(k) == Cardinality({ j \in 1..k : Dispatchable(feeds[j]) })

\* C1: per-feed isolation.  When execute_collectors_for_feeds has returned,
\* every feed whose plugin could be called was called, a feed whose plugin
\* raised holds only the error marker in its slot, and every other such feed
\* holds the full result its plugin returned, whatever the other feeds did.
C1_PerFeedIsolation ==
    dpc = "done" =>
        /\ awaited = SelectSeq([k \in 1..Len(feeds) |-> k],
                               LAMBDA k : Dispatchable(feeds[k]))
        /\ \A k \in 1..Len(feeds) :
              Dispatchable(feeds[k]) =>
                  /\ Slot(k) <= Len(results)
                  /\ results[Slot(k)] =
                        IF feeds[k].plugin = "raise" THEN ErrorMarker
                        ELSE PluginReturn(k, feeds[k].plugin)

\* C1 witness: the first feed's plugin raised, a later feed returned two
\* items, and the dispatcher has returned
C1_Witness ==
    /\ dpc = "done"
    /\ Len(feeds) >= 2
    /\ Dispatchable(feeds[1]) /\ feeds[1].plugin = "raise"
    /\ Dispatchable(feeds[2]) /\ feeds[2].plugin = "items2"
    /\ results[1] = ErrorMarker
    /\ results[2].items = << <<2, 1>>, <<2, 2>> >>

-----------------------------------------------------------------------------
(* Claims about the collectors.                                            *)

\* the descriptor and the feed index let the collector reach its loop
FeedUsable == feed_info.source_link /\ feed_info.media_id # 0 /\ index_ok

\* processing entry k fails: the fetch raises, or the link or the title is
\* missing or empty
EntryFails(k) ==
    \/ ~entries[k].e.has_link
    \/ ~entries[k].e.has_title
    \/ entries[k].e.title = <<>>
    \/ entries[k].p.fetch = "raise"

\* the page of the entry an item was built from
PageOf(item) == entries[item.entry].p

\* C2: per-item isolation.  When a collector has finished a usable feed in
\* which processing of some entry failed, the failure has neither aborted
\* the feed nor made its result an error, and the items collected are
\* exactly the records of the entries that did not fail.
C2_PerItemIsolation ==
    FeedDone /\ FeedUsable =>
        \A k \in 1..Len(entries) :
            EntryFails(k) =>
                /\ fpc \in {"returned", "save_failed"}
                /\ { items[i].entry : i \in 1..Len(items) }
                     = { j \in 1..Len(entries) : ~EntryFails(j) }

\* C3: every NewsItem has a non-empty content, whatever the page holds and
\* whatever the fetch of the article returned.
C3_ContentNonEmpty ==
    \A i \in 1..Len(items) : items[i].content # <<>>

\* C4: every NewsItem has a publish_date; for a missing, empty or
\* unparsable published field it is the current time, never None.
C4_PublishDateNeverNone ==
    \A i \in 1..Len(items) : items[i].publish_date # "None"

\* C5: every NewsItem has a category_id of the canonical set 1..8, never
\* None, 0 or NaN.
C5_CategoryCanonical ==
    \A i \in 1..Len(items) :
        items[i].category_id \in { IntV(n) : n \in CategoryIds }

\* the page has a __DetailProp__ script with body fields
HasEmbeddedBody(p) ==
    /\ p.script.present
    /\ p.script.more \/ p.script.json_body = "valid"

\* the page has the body container the first selector of the variant finds
HasPrimaryContainer(v, p) ==
    CASE v = "v1" -> p.main = "target"
      [] v = "v3" -> p.article_nhk
      [] v = "v4" -> p.detail_body # "none"
      [] v = "v2" -> p.content_section # "none"

\* C6: strategy precedence.  For a page with both an embedded-data script
\* with body fields and a primary body container, the content of the record
\* comes from the embedded-data strategy.
C6_EmbeddedDataFirst ==
    \A i \in 1..Len(items) :
        /\ PageOf(items[i]).fetch = "ok"
        /\ HasEmbeddedBody(PageOf(items[i]))
        /\ HasPrimaryContainer(variant, PageOf(items[i]))
        => items[i].html_by = "embedded"

\* C7: first success is terminal.  The content and every section of the
\* structured content of a record come from one and the same strategy.
C7_OneStrategy ==
    \A i \in 1..Len(items) :
        \A j \in 1..Len(items[i].sections) :
            items[i].sections[j].by = items[i].html_by

\* the page has no embedded-data script and none of the containers
NothingRecognized(p) ==
    /\ p.fetch = "ok"
    /\ ~p.script.present
    /\ ~p.article_nhk
    /\ p.detail_body = "none"
    /\ p.news_text = "none"
    /\ p.main = "none"

\* the minimal fallback for title t and URL u: a stub with an h1 of t and
\* the URL, and one section whose content is "t u"
IsMinimalFallback(item, t, u) ==
    /\ \E a \in 1..Len(item.content) : item.content[a] = Piece("h1", t)
    /\ \E a \in 1..Len(item.content) : item.content[a] = Piece("a", u)
    /\ Len(item.sections) = 1
    /\ ~item.sections[1].is_list
    /\ item.sections[1].content = <<t \o <<" ">> \o u>>

\* C8: fallback termination.  For a page with no embedded-data script and
\* none of the recognized containers the extraction yields the minimal
\* fallback, with the title of the record or the title of the page.
C8_MinimalFallback ==
    \A i \in 1..Len(items) :
        NothingRecognized(PageOf(items[i])) =>
            \/ IsMinimalFallback(items[i], items[i].title, items[i].url)
            \/ IsMinimalFallback(items[i],
                    IF PageOf(items[i]).page_title THEN PageTitle ELSE <<>>,
                    items[i].url)

-----------------------------------------------------------------------------
(* Claims about _clean_text.                                               *)

\* the text holds no backslash and no ampersand: no escape or character
\* reference is left in it
NoEscapeLeft(s) == \A i \in 1..Len(s) : s[i] \notin {BS, "&"}

CleanReturned2 == round = 2 /\ cpc = "done"

\* C9 as stated: for every input, cleaning the result again changes nothing
C9_IdempotentAllInputs == CleanReturned2 => text = out1

\* C9 amended: cleaning the result of _clean_text again changes nothing
\* whenever that result holds no backslash and no ampersand (no escape or
\* character reference is nested in the input)
C9_IdempotentNoNestedEscape ==
    CleanReturned2 /\ NoEscapeLeft(out1) => text = out1

\* C9 witness: an input that the normalizer changed, to a non-empty result
\* without escapes, cleaned a second time
C9_Witness ==
    /\ CleanReturned2
    /\ NoEscapeLeft(out1)
    /\ out1 # <<>>
    /\ out1 # cinput
    /\ ~NoEscapeLeft(cinput)

\* C10 as stated: the decoding loop makes at most a fixed number of passes
\* (the cap the spec names is 10)
C10_IterationCap == passes <= 10

\* C10 amended: the loop has no cap; every pass shortens the text by at
\* least five characters, so the passes made are at most a fifth of the
\* length of the text the loop started with, and the loop ends on every input
C10_PassesShortenText ==
    /\ (cpc = "decode" => 5 * passes + Len(text) <= Len(loopStart))
    /\ (cpc = "done" => 5 * passes <= Len(loopStart))
    /\ (cpc = "decode" /\ re_search_unicode(text) =>
            Len(re_sub_unicode(text)) + 5 <= Len(text))

\* C10 witness: a nested escape took three passes or more and the call
\* returned
C10_Witness == cpc = "done" /\ round = 1 /\ passes >= 3

\* the replacements as the claim words them: each of the seven two-character
\* sequences becomes its one literal character, backslash-slash one '/'
escapes_to_literals(s) ==
    LET t1 == str_replace(s, <<BS, "/">>, <<"/">>)
        t2 == str_replace(t1, <<BS, "n">>, <<"\n">>)
        t3 == str_replace(t2, <<BS, "t">>, <<"\t">>)
        t4 == str_replace(t3, <<BS, "r">>, <<"\r">>)
        t5 == str_replace(t4, <<BS, "\"">>, <<"\"">>)
        t6 == str_replace(t5, <<BS, "'">>, <<"'">>)
    IN  str_replace(t6, <<BS, BS>>, <<BS>>)

\* C11: when _clean_text leaves the decoding loop, the text it returns is
\* the text it had, with every known mis-escaped two-character sequence
\* replaced by its single literal character (backslash-slash by one '/'),
\* then whitespace-collapsed and stripped.
C11_EscapesBecomeLiterals ==
    [][cpc = "decode" /\ cpc' = "done" =>
            text' = str_strip(collapse_ws(escapes_to_literals(text)))]_vars

\* a whitespace character is at position i of s
SpaceAt(s, i) == i \in 1..Len(s) /\ IsSpace(s[i])

\* C12: the text _clean_text returns has no whitespace at either end, no
\* two whitespace characters in a row, and no whitespace character other
\* than the space.
C12_WhitespaceNormal ==
    cpc = "done" =>
        /\ ~SpaceAt(text, 1)
        /\ ~SpaceAt(text, Len(text))
        /\ \A i \in 1..Len(text) :
              SpaceAt(text, i) => text[i] = " " /\ ~SpaceAt(text, i + 1)

\* C12 witness: an input with whitespace at an end or with whitespace other
\* than a single space (written as a character reference, as an escape, or
\* as such) came back with a space inside
C12_Witness ==
    /\ cpc = "done"
    /\ round = 1
    /\ \E i \in 1..Len(text) : text[i] = " "
    /\ \/ SpaceAt(cinput, 1)
       \/ SpaceAt(cinput, Len(cinput))
       \/ \E i \in 1..Len(cinput) : SpaceAt(cinput, i) /\ SpaceAt(cinput, i + 1)
       \/ \E i \in 1..Len(cinput) : cinput[i] \in {BS, "&"}

-----------------------------------------------------------------------------
(* Claims about the category, the date and the title of a record.          *)

\* the feed descriptor supplies a category: news_category holds an ID.  The
\* v1 collector is given no descriptor
ConfigCategoryPresent == variant # "v1" /\ feed_info.news_category[1] = "int"

\* the page or the feed entry of the record carries a category label
HasCategoryLabel(k) ==
    \/ entries[k].p.script.category # "none"
    \/ entries[k].p.header_category # "none"
    \/ entries[k].e.category # "absent"

\* C13: the category of the configuration wins.  When the feed descriptor
\* supplies a category, every record made from the feed carries that value,
\* whatever label the embedded data, the page header or the feed entry has.
C13_ConfigCategoryWins ==
    ConfigCategoryPresent =>
        \A i \in 1..Len(items) : items[i].category_id = feed_info.news_category

C13_Witness ==
    /\ ConfigCategoryPresent
    /\ variant = "v2"
    /\ \E i \in 1..Len(items) :
          /\ HasCategoryLabel(items[i].entry)
          /\ items[i].category_id = feed_info.news_category

\* the date the candidates give in their order: the timestamp of the
\* embedded data, the published field of the feed entry, the current time
FirstDateThatParses(e, p) ==
    IF p.script.present /\ p.script.datetime = "good" THEN "script"
    ELSE IF e.published # "absent" /\ parsedate_ok(e.published) THEN "entry"
    ELSE "now"

\* entry k was processed, and it has a link and a title and its page was
\* fetched: nothing but the date can keep it from becoming a record
EntryComplete(k) ==
    /\ k < eidx
    /\ entries[k].e.has_link
    /\ entries[k].e.has_title
    /\ entries[k].p.fetch # "raise"

\* C15: the order of the publish-date candidates.  In the collectors that
\* read both candidates (v1, v2) every complete entry becomes a record, and
\* its publish_date is the first candidate that parses: the embedded
\* timestamp, else the published field of the entry, else the current time.
C15_DateCandidatesInOrder ==
    variant \in {"v1", "v2"} =>
        \A k \in 1..Len(entries) :
            EntryComplete(k) =>
                \E i \in 1..Len(items) :
                    /\ items[i].entry = k
                    /\ items[i].publish_date =
                            FirstDateThatParses(entries[k].e, entries[k].p)

\* the embedded data of the page of the record carries a title
HasEmbeddedTitle(item) ==
    /\ PageOf(item).fetch = "ok"
    /\ PageOf(item).script.present
    /\ PageOf(item).script.title

\* C16: the title of the embedded data wins.  When the embedded data of the
\* page carries a title and the feed entry carries one too, the title of the
\* record and the h1 of its content are the title of the embedded data.
C16_EmbeddedTitleWins ==
    \A i \in 1..Len(items) :
        HasEmbeddedTitle(items[i]) /\ entries[items[i].entry].e.title # <<>> =>
            /\ items[i].title = clean_text_v1(ScriptTitle)
            /\ \A a \in 1..Len(items[i].content) :
                  items[i].content[a].tag = "h1" =>
                      items[i].content[a].txt = clean_text_v1(ScriptTitle)

\* some key of the mapping of the variant equals the label ignoring case
KeysIgnoringCase(v, t) ==
    { k \in DOMAIN (IF v = "v2" THEN category_mapping_v2 ELSE category_mapping_v3) :
        str_lower(LabelText(k)) = str_lower(t) }

\* C14: _guess_category is a case-insensitive lookup.  It returns
\* mapping[K] when the label equals a key K ignoring letter case, also for
\* a key with upper-case letters, and the default ID 3 for every other label.
C14_GuessIgnoresCase ==
    gpc = "done" =>
        LET mapping == IF gvariant = "v2" THEN category_mapping_v2
                                          ELSE category_mapping_v3
            keys == IF glabel.is_str THEN KeysIgnoringCase(gvariant, glabel.text) ELSE {}
        IN  IF keys # {} THEN \A k \in keys : gresult = mapping[k]
            ELSE gresult = 3

-----------------------------------------------------------------------------
(* Claims about the configuration and the dispatcher run.                  *)

\* C17: the rows load_active_feeds returns.  Every row returned is marked
\* active in the file and has both source_link and script_file_name
\* populated, whatever its source_type.
C17_OnlyCompleteActiveRows ==
    lpc = "done" =>
        \A i \in 1..Len(active_feeds) :
            /\ csv_rows[active_feeds[i].source_id].active = "TRUE"
            /\ active_feeds[i].source_link
            /\ active_feeds[i].script_file_name

\* the plugin of feed k was called and has returned or raised
Completed(k) ==
    /\ k < fidx
    /\ \E i \in 1..Len(awaited) : awaited[i] = k

\* every feed whose plugin can be called and returns has completed
RunnableFeedsCompleted ==
    \A k \in 1..Len(feeds) :
        Dispatchable(feeds[k]) /\ feeds[k].plugin # "never" => Completed(k)

\* C18: feeds make progress independently.  Whatever the plugin of another
\* feed does, also when it never returns, the dispatcher starts and
\* completes every feed whose own plugin returns.
C18_IndependentProgress == <>RunnableFeedsCompleted

\* C19: one shared HTTP client session.  At most one ClientSession is
\* created in a run of execute_collectors_for_feeds or of main, and the
\* fetches of every feed go through that one session.
C19_OneSharedSession ==
    /\ Len(sessions) <= 1
    /\ \A i, j \in 1..Len(session_of) :
          session_of[i] # 0 /\ session_of[j] # 0 => session_of[i] = session_of[j]

-----------------------------------------------------------------------------
(* Claims about validate.                                                  *)

\* the reachability check of the item ran and did not fail, or failed with
\* a timeout, a client error or a status other than 200
CheckPassedOrFailed(item) == item.head \in {"ok", "non200", "timeout", "client_error"}

\* C20: a failed reachability check is a warning only.  validate keeps
\* every item that has a title and a URL, also when the check of its URL
\* ends with a timeout, a client error or a status other than 200.
C20_FailedCheckKeepsItem ==
    vpc = "done" =>
        \A k \in 1..Len(vitems) :
            vitems[k].title /\ vitems[k].url /\ CheckPassedOrFailed(vitems[k]) =>
                \E i \in 1..Len(validated_items) : validated_items[i] = k

-----------------------------------------------------------------------------
(* Claims about failures of fetches, of the embedded data and of the       *)
(* export.                                                                 *)

\* C21: an article page answered with a status other than 200 makes the
\* collector skip the entry: no record of the result was built from a
\* response that was not 200.
C21_Non200EntrySkipped ==
    \A i \in 1..Len(items) : PageOf(items[i]).fetch # "non200"

\* parsing the __DetailProp__ script of the page raises: in v2 the script
\* gives no date and the date of the entry cannot be parsed
\* (parsedate_to_datetime inside the try of the script), in v3 the body of
\* the script is no JSON (json.loads).  The regular expressions of v1 and
\* v4 raise on no script
EmbeddedParseRaises(v, e, p) ==
    /\ p.fetch # "raise"
    /\ p.script.present
    /\ CASE v = "v2" -> v2_script_date(Unbound, 0, e, p.script).raised
         [] v = "v3" -> p.script.json_body = "invalid"
         [] OTHER -> FALSE

\* entry k was processed, has a link and a title, and the parsing of its
\* script raised
EmbeddedFailed(k) ==
    /\ k < eidx
    /\ ~EntryFails(k)
    /\ EmbeddedParseRaises(variant, entries[k].e, entries[k].p)

\* C22: when parsing the embedded data of a page raises, the strategy counts
\* as failed.  The run goes on with the other strategies, so the entry still
\* gets its record, and neither the content nor any section of that record
\* was built by the embedded-data strategy.
C22_FailedEmbeddedDataLeavesNothing ==
    \A k \in 1..Len(entries) :
        EmbeddedFailed(k) =>
            /\ \E i \in 1..Len(items) : items[i].entry = k
            /\ \A i \in 1..Len(items) :
                  items[i].entry = k =>
                      /\ items[i].html_by # "embedded"
                      /\ \A j \in 1..Len(items[i].sections) :
                            items[i].sections[j].by # "embedded"

-----------------------------------------------------------------------------
(* Claims about the plugin registry and the result list of the dispatcher. *)

\* the loads of the module of script s
LoadsOf(s) == { i \in 1..Len(loads) : loads[i] = s }

\* C23: the plugin registry is populated at most once for each plugin name
\* and read-only after that.  In a run over several feeds the module of a
\* plugin is loaded and executed at most once, and the module registered
\* under a name is the one of its first load.
C23_PluginLoadedOnce ==
    \A s \in Scripts :
        /\ Cardinality(LoadsOf(s)) <= 1
        /\ sys_modules[s] # 0 => \A i \in LoadsOf(s) : sys_modules[s] <= i

-----------------------------------------------------------------------------
(* Claims about the sections of the structured content.                    *)

\* the text of a child element that belongs into a section: the cleaned
\* text of a paragraph unless it is empty, the items of a list
TextsOf(el) ==
    CASE el.name = "p" ->
            IF clean_text_v1(el.txt) = <<>> THEN <<>> ELSE <<clean_text_v1(el.txt)>>
      [] el.name = "ul" -> list_items(el)
      [] OTHER -> <<>>

\* the texts of the first n children, grouped in document order: a heading
\* opens a group, a text joins the group opened last, or opens a group when
\* there is none
RECURSIVE TextsBySection(_, _)
TextsBySection(ch, n) ==
    IF n = 0 THEN <<>>
    ELSE LET g == TextsBySection(ch, n - 1)
         IN  IF ch[n].name = "h2" THEN Append(g, <<>>)
             ELSE IF TextsOf(ch[n]) = <<>> THEN g
             ELSE IF g = <<>> THEN <<TextsOf(ch[n])>>
             ELSE [g EXCEPT ![Len(g)] = @ \o TextsOf(ch[n])]

\* the content of every section the walk returned, in order
ContentsOf(secs) == [i \in 1..Len(secs) |-> secs[i].content]

LiTexts(html) ==
    LET lis == SelectSeq(html, LAMBDA q : q.tag = "li")
    IN  [i \in 1..Len(lis) |-> lis[i].txt]

\* the sequence t holds the sequence l as a run of neighbours
HoldsRun(t, l) ==
    \E a \in 0..(Len(t) - Len(l)) : SubSeq(t, a + 1, a + Len(l)) = l

\* the number of lists the generic extraction collected for the item
GenericLists(item) ==
    IF item.html_by = "generic" THEN PageOf(item).generic.lists ELSE 0

\* C25: rendering of list content.  For every list the generic extraction
\* of headings, paragraphs and lists collected, content_html holds the
\* items of the list as li elements in their order, and a section of the
\* structured content has a list content of the same items in the same
\* order.
C25_ListRenderingKeepsItems ==
    \A i \in 1..Len(items) :
        \A n \in 1..GenericLists(items[i]) :
            /\ HoldsRun(LiTexts(items[i].content), list_items_text(n))
            /\ \E j \in 1..Len(items[i].sections) :
                  /\ items[i].sections[j].is_list
                  /\ items[i].sections[j].content = list_items_text(n)

\* the trailing entry of the integrated CSV file is there
HasIntegrated == results # <<>> /\ results[Len(results)].tag = "integrated"

\* the slots of the feeds: the results without the integrated entry
FeedSlots == IF HasIntegrated THEN Len(results) - 1 ELSE Len(results)

\* C26, as stated: when execute_collectors_for_feeds has returned, the list
\* holds one slot for every descriptor, also for those without script name,
\* without module or without get_news.
C26_OneSlotPerDescriptor ==
    dpc = "done" /\ runner = "execute_collectors_for_feeds" =>
        FeedSlots = Len(feeds)

\* C26, amended: when execute_collectors_for_feeds has returned, the list
\* holds one slot, in the order of the feeds, for every descriptor whose
\* plugin was called: the result the plugin returned or an error marker.  A
\* descriptor without script name, module or get_news has no slot.  The
\* only other element is one trailing entry of the integrated file, which
\* is there only when items were collected.
C26_OneSlotPerCalledPlugin ==
    dpc = "done" /\ runner = "execute_collectors_for_feeds" =>
        /\ FeedSlots = Slot(Len(feeds))
        /\ \A i \in 1..FeedSlots : results[i].tag \in {"result", "error"}
        /\ \A k \in 1..Len(feeds) :
              Dispatchable(feeds[k]) =>
                  /\ Slot(k) <= FeedSlots
                  /\ results[Slot(k)] = execute_collector(k, feeds[k])
        /\ HasIntegrated => all_items # <<>>

\* C26 witness: a run over a descriptor without script name, one whose
\* module cannot be loaded and one whose plugin returned items has returned
\* one slot and the entry of the integrated file
C26_Witness ==
    /\ dpc = "done"
    /\ runner = "execute_collectors_for_feeds"
    /\ Len(feeds) = 3
    /\ feeds[1].script_file_name = ""
    /\ feeds[2].script_file_name = "no_module"
    /\ feeds[3].plugin = "items1" /\ Dispatchable(feeds[3])
    /\ Len(results) = 2
    /\ results[1].tag = "result"
    /\ HasIntegrated

-----------------------------------------------------------------------------
(* Claims about the HTTP session, empty feeds and the export.              *)

\* C27: ownership of the HTTP session.  get_news of v4 and collect of v3
\* create a session only when the caller passed none; they never close a
\* session the caller passed, which stays open for the next feed; and on
\* every way out (normal return, early error return, exception) the session
\* they created is closed, so none is open after they return.
C27_SessionOwnership ==
    variant \in {"v3", "v4"} =>
        /\ passed_session = IF session_given THEN "open" ELSE "none"
        /\ session_given => own_session = "none"
        /\ FeedDone => own_session # "open"
        /\ own_session = "closed" => FeedDone

\* C27 witness: get_news of v4, given no session, left its loop with an
\* exception and closed the session it had created
C27_Witness ==
    /\ variant = "v4"
    /\ ~session_given
    /\ fpc = "error"
    /\ eidx > 1
    /\ own_session = "closed"

\* every entry of the feed was processed and none gave a record
NoRecords == eidx > Len(entries) /\ items = <<>>

\* C28: a feed that yields no record gives a normal result.  When get_news
\* of v4 has gone through a feed with a usable descriptor and index whose
\* entries, if any, were all skipped, it returns the result with the empty
\* item list and no output file, not an error.
C28_EmptyFeedNormalResult ==
    variant = "v4" /\ FeedUsable /\ FeedDone /\ NoRecords
        /\ (\A k \in 1..Len(entries) : entries[k].e.has_link)
        => fpc = "returned"

\* what processing entry k gives when the loop has carried nothing over
\* from earlier entries: the category is the one of the descriptor and
\* publish_date is not assigned
Alone(k) ==
    IF variant = "v2"
    THEN process_entry_v2(feed_info.media_id, csv_category_v2(feed_info), Unbound,
                          k, entries[k].e, entries[k].p)
    ELSE process_entry(variant, feed_info, k, entries[k].e, entries[k].p)

\* C29: entries are independent.  The record of an entry is the record the
\* collector builds from the descriptor and from the feed data and the page
\* of that entry alone: no category and no publish date resolved for an
\* earlier entry of the feed is carried into it.
C29_EntryIndependence ==
    \A i \in 1..Len(items) : Alone(items[i].entry).item = <<items[i]>>

\* C30: a failed export loses no record.  When get_news of v4 has collected
\* records and writing the CSV file failed, the result it returns still
\* holds the records collected.
C30_ExportFailureKeepsRecords ==
    variant = "v4" /\ fpc = "save_failed" => result_items(fpc, items) = items

====
